---------------------------- MODULE Spec2Model ----------------------------
(***************************************************************************)
(* A model of the RSLM maths library (rslm-matphyslib): 4x4 tensor         *)
(* algebra, metric signature repair, the finite-difference geometry        *)
(* pipeline and the geodesic integrator.                                   *)
(*                                                                         *)
(* Numbers.  cfg::real (double) is modelled by exact decimal-scaled        *)
(* rationals <<n, d, e>> = (n/d) * 10^e, kept in a canonical form, so that *)
(* the library's thresholds (1e-9, 1e-10, 1e-12, 1e-14) are the source's   *)
(* own values.  Rounding is not modelled: every result is the exact-       *)
(* arithmetic value of the expression the code evaluates.  The one         *)
(* non-finite value NaN stands for IEEE inf and NaN (the result of a       *)
(* division by zero); it is absorbing and compares false, as NaN does.     *)
(* Indices run over 0..3 as in the source.                                 *)
(***************************************************************************)
EXTENDS Integers, Sequences, FiniteSets, TLC

VARIABLES
    \* ---- units.hpp: the library's constants object ----
    fd_h,        \* units::C().fd_h, the finite-difference step
    \* ---- caller of the geometry pipeline at one query point ----
    geo_pc,      \* the last pipeline call that acted ("off" when unused)
    field,       \* the IMetricField queried
    pt,          \* the query point x
    dg4,         \* DMetric4 returned by dmetric4(F, x, h)
    pack,        \* MetricPack returned by prepare_metric(F, x)
    gam,         \* Gamma returned by christoffel(pack)
    riem,        \* Riemann returned by riemann_at(F, x)
    ric,         \* mat4 returned by ricci(riem)
    rscal,       \* real returned by scalar(pack.g_inv, ric)
    ein,         \* sym4 returned by einstein_at(F, x)
    \* ---- caller of linalg.hpp (inverse, sym4) ----
    lin_pc,      \* which linalg call has acted: "off" | "start" | "inverse" | "sym4" | "sym4_again"
    A,           \* the mat4 argument
    eps,         \* the tolerance passed to inverse
    Ainv,        \* inverse's out-parameter Ainv (a default mat4 before the call)
    inv_ok,      \* inverse's return value
    out_det,     \* inverse's out-parameter out_det
    sym_arg,     \* the argument of the last sym4 construction
    S,           \* the sym4 last constructed
    \* ---- caller of metric.hpp (project_signature, validate_signature) ----
    sig_pc,      \* "off" | "start" | "projected" | "validated"
    sig_g,       \* the symmetric matrix handed to project_signature
    sig_eps,     \* the floor eps handed to project_signature
    sig_out,     \* the sym4 project_signature returned
    sig_warn,    \* whether project_signature emitted project_signature_warn
    nneg,        \* validate_signature's counts for sig_out
    npos,
    nzero,
    \* ---- caller of integrators.hpp: a worldline stepped by geodesic_step ----
    wl_pc,       \* "off" | "run"
    wl_field,    \* the IMetricField
    wl_pot,      \* the IPotential pointer: "none" is nullptr
    wl_dtau,     \* the step dtau
    wx,          \* the position x, mutated by geodesic_step
    wu,          \* the velocity u, mutated by geodesic_step
    wx0,         \* x before the first step
    wu0,         \* u before the first step
    steps,       \* the number of geodesic_step calls made
    last,        \* the locals of the last call: x before it, a0, uh, a1, u_new, q
    \* ---- one call of jacobi_symmetric_4x4, loop iteration by iteration ----
    jac_pc,      \* "off" | "loop" | "copy" | "done"
    jac_in,      \* the argument A_in
    jac_max,     \* the argument max_sweeps
    jac_tol,     \* the argument tol
    jac_A,       \* the local copy A
    jac_Q,       \* the out-parameter Q_out
    jac_sweep,   \* the loop counter sweep
    jac_rot,     \* the number of jacobi_rotate calls made
    jac_lam,     \* the out-parameter lam
    jac_ret,     \* the return value: "none" before the return, then "true" or "false"
    \* ---- caller of build_tetrad and is_pd ----
    tet_pc,      \* "start", "built", "checked" ("off" in the other specifications)
    tet_g,       \* the argument g_in
    tet_eps,     \* the argument eps of build_tetrad
    tet_E,       \* the out-parameter E_out
    tet_gt,      \* the out-parameter g_tilde_out
    tet_fro,     \* the Frobenius error build_tetrad returned
    tet_pd,      \* what is_pd(g_tilde) returned: "none", "true" or "false"
    \* ---- caller of the positive-definiteness audit ----
    pd_pc,       \* "start", "squared", "checked" ("off" in the other specifications)
    pd_g,        \* the symmetric matrix g under audit
    pd_gt,       \* the proxy pd_proxy_square(g) returned
    pd_rep,      \* the PDReport check_pd returned
    \* ---- caller of the time-dilation audit ----
    td_pc,       \* "start", "done" ("off" in the other specifications)
    td_g,        \* the metric g
    td_u,        \* the 4-velocity u
    td_t,        \* the local t = timelike_unit(g) of time_dilation
    td_rep,      \* the TDReport time_dilation returned
    \* ---- one core call, run with a logger and run again without one ----
    ni_pc,       \* "start", "done" ("off" in the other specifications)
    ni_call,     \* the operation called and its arguments
    ni_heavy,    \* heavy_trace_enabled(): RSLM_TRACE_HEAVY is set and not "0"
    ni_L,        \* the Logger of the traced run: enabled_, min_level_, started_, log_counter_, lines
    ni_out,      \* what the call returned and wrote in the traced run
    ni_quiet,    \* the same in the run with the logger disabled and heavy tracing off
    \* ---- one per-point call made twice, with writes to units::C() between ----
    rp_pc,       \* "start", "first", "second" ("off" in the other specifications)
    rp_call,     \* the operation called and its arguments
    rp_dtau,     \* units::C().dtau
    rp_writes,   \* how many writes to units::C() were made
    rp_h1,       \* units::C().fd_h when the first call was made
    rp_h2,       \* units::C().fd_h when the second call was made
    rp_first,    \* the result of the first call
    rp_second,   \* the result of the second call
    \* ---- the Logger singleton and the threads calling it ----
    lg_pc,           \* per thread: the statement it executes next ("idle" between calls)
    lg_op,           \* per thread: the member function called and its arguments
    lg_rec,          \* per thread: the local Record rec (run_id, log_id)
    lg_calls,        \* how many calls were started
    lg_mtx,          \* mtx_: the thread holding it, 0 when free
    lg_enabled,      \* enabled_
    lg_min_level,    \* min_level_
    lg_console,      \* console_mirror_
    lg_started,      \* started_
    lg_run_id,       \* run_id_ (0: the empty string; k: the k-th generated id)
    lg_flush_every,  \* flush_every_
    lg_counter,      \* log_counter_
    lg_file,         \* file_: the lines written, in the order they were written
    \* ---- one call of geodesic_step ----
    gs_pc,       \* "ready" before the call, "done" after it ("off" elsewhere)
    gs_in,       \* the arguments: field, potential, x, u, dtau
    gs_out,      \* x and u after the call, with the locals of the call
    \* ---- project_signature on a matrix whose eigenvalue vector is known ----
    pj_pc,       \* "start" before the call, "projected" after it ("off" elsewhere)
    pj_lam,      \* the eigenvalue vector: the input is diag(lam)
    pj_eps,      \* the floor eps
    pj_out,      \* the sym4 returned
    \* ---- det and inverse called on the same matrix ----
    dt_pc,       \* "start", "det" after det, "inverse" after inverse ("off" elsewhere)
    dt_M,        \* the matrix
    dt_eps,      \* the argument eps of inverse
    dt_det,      \* what det returned, and whether by its early return
    dt_inv,      \* what inverse returned: ok, out_det, sign
    \* ---- one call of stress_energy_at ----
    se_pc,       \* "start" before the call, "done" after it ("off" elsewhere)
    se_F,        \* the metric field
    se_evs,      \* the event list
    se_x,        \* the query point
    se_P,        \* the TSParams
    se_T,        \* the matrix returned
    se_calls,    \* the points at which the call evaluated F.g, in order
    \* ---- two worldlines, one stepped by rk4_geodesic, one by geodesic_step ----
    rk_pc,       \* "run" ("off" elsewhere)
    rk_F,        \* the metric field
    rk_P,        \* the potential
    rk_dtau,     \* the step
    rk_x,        \* x of the worldline stepped by rk4_geodesic
    rk_u,        \* u of the worldline stepped by rk4_geodesic
    rk_n,        \* the number of calls of rk4_geodesic
    rk_gx,       \* x of the worldline stepped by geodesic_step
    rk_gu,       \* u of the worldline stepped by geodesic_step
    rk_gn,       \* the number of calls of geodesic_step
    \* ---- a sequence of det and inverse calls under the logger ----
    th_pc,       \* "run" ("off" elsewhere)
    th_heavy,    \* heavy_trace_enabled()
    th_L,        \* the logger
    th_calls,    \* the number of calls made
    \* ---- one call of save_ppm ----
    pm_pc,       \* "start", "pixels", "closed", "failed", "crashed" ("off" elsewhere)
    pm_nx,       \* G.nx
    pm_ny,       \* G.ny
    pm_overlay,  \* the overlay vector
    pm_i,        \* the loop variable i
    pm_j,        \* the loop variable j
    pm_reads,    \* the indices at which overlay was read
    pm_pix,      \* the pixels written, in order: "black" or "palette"
    \* ---- one call of mask_from_path_xy ----
    ov_pc,       \* "path" between segments, "loop" inside draw_segment, "done" ("off" elsewhere)
    ov_nx,       \* G.nx
    ov_ny,       \* G.ny
    ov_thick,    \* thickness
    ov_path,     \* the (x, y) of the path points
    ov_k,        \* the loop variable k
    ov_seg,      \* i0, j0, i1, j1, di, dj, si, sj of the segment being drawn
    ov_i,        \* i of draw_segment
    ov_j,        \* j of draw_segment
    ov_err,      \* err of draw_segment
    ov_iter,     \* the iterations of the while loop made for this segment
    ov_seen,     \* the cells (i, j) the loop of this segment has stood on
    ov_M,        \* the mask M
    ov_writes,   \* every write to M: the cell and the index written
    \* ---- start_run, stop_run and log called one after the other ----
    rn_pc,       \* "run" ("off" elsewhere)
    rn_started,  \* started_
    rn_run_id,   \* run_id_ (0 is the empty string)
    rn_open,     \* file_.is_open()
    rn_counter,  \* log_counter_
    rn_gen,      \* the last id gen_run_id_ returned
    rn_lines,    \* the records written, in order
    rn_serial,   \* how many runs have been opened
    rn_prev,     \* the call just made and the fields as they were before it
    rn_calls     \* the number of calls made

linVars == <<lin_pc, A, eps, Ainv, inv_ok, out_det, sym_arg, S>>

geoVars == <<geo_pc, field, pt, dg4, pack, gam, riem, ric, rscal, ein>>

sigVars == <<sig_pc, sig_g, sig_eps, sig_out, sig_warn, nneg, npos, nzero>>

wlVars == <<wl_pc, wl_field, wl_pot, wl_dtau, wx, wu, wx0, wu0, steps, last>>

jacVars ==
    <<jac_pc, jac_in, jac_max, jac_tol, jac_A, jac_Q, jac_sweep, jac_rot, jac_lam, jac_ret>>

tetVars == <<tet_pc, tet_g, tet_eps, tet_E, tet_gt, tet_fro, tet_pd>>

pdVars == <<pd_pc, pd_g, pd_gt, pd_rep>>

tdVars == <<td_pc, td_g, td_u, td_t, td_rep>>

niVars == <<ni_pc, ni_call, ni_heavy, ni_L, ni_out, ni_quiet>>

rpVars == <<rp_pc, rp_call, rp_dtau, rp_writes, rp_h1, rp_h2, rp_first, rp_second>>

lgVars == <<lg_pc, lg_op, lg_rec, lg_calls, lg_mtx, lg_enabled, lg_min_level, lg_console,
           lg_started, lg_run_id, lg_flush_every, lg_counter, lg_file>>

gsVars == <<gs_pc, gs_in, gs_out>>

pjVars == <<pj_pc, pj_lam, pj_eps, pj_out>>

dtVars == <<dt_pc, dt_M, dt_eps, dt_det, dt_inv>>

seVars == <<se_pc, se_F, se_evs, se_x, se_P, se_T, se_calls>>

rkVars == <<rk_pc, rk_F, rk_P, rk_dtau, rk_x, rk_u, rk_n, rk_gx, rk_gu, rk_gn>>

thVars == <<th_pc, th_heavy, th_L, th_calls>>

pmVars == <<pm_pc, pm_nx, pm_ny, pm_overlay, pm_i, pm_j, pm_reads, pm_pix>>

ovVars == <<ov_pc, ov_nx, ov_ny, ov_thick, ov_path, ov_k, ov_seg, ov_i, ov_j, ov_err, ov_iter, ov_seen, ov_M, ov_writes>>

rnVars == <<rn_pc, rn_started, rn_run_id, rn_open, rn_counter, rn_gen, rn_lines, rn_serial, rn_prev, rn_calls>>

vars == <<fd_h, linVars, geoVars, sigVars, wlVars, jacVars, tetVars, pdVars, tdVars, niVars, rpVars, lgVars, gsVars, pjVars, dtVars, seVars, rkVars, thVars, pmVars, ovVars, rnVars>>

\* what the calls of one caller leave alone: the variables of the others
notLin == <<geoVars, sigVars, wlVars, jacVars, tetVars, pdVars, tdVars, niVars, rpVars, lgVars, gsVars, pjVars, dtVars, seVars, rkVars, thVars, pmVars, ovVars, rnVars>>
notGeo == <<linVars, sigVars, wlVars, jacVars, tetVars, pdVars, tdVars, niVars, rpVars, lgVars, gsVars, pjVars, dtVars, seVars, rkVars, thVars, pmVars, ovVars, rnVars>>
notSig == <<linVars, geoVars, wlVars, jacVars, tetVars, pdVars, tdVars, niVars, rpVars, lgVars, gsVars, pjVars, dtVars, seVars, rkVars, thVars, pmVars, ovVars, rnVars>>
notWl == <<linVars, geoVars, sigVars, jacVars, tetVars, pdVars, tdVars, niVars, rpVars, lgVars, gsVars, pjVars, dtVars, seVars, rkVars, thVars, pmVars, ovVars, rnVars>>
notJac == <<linVars, geoVars, sigVars, wlVars, tetVars, pdVars, tdVars, niVars, rpVars, lgVars, gsVars, pjVars, dtVars, seVars, rkVars, thVars, pmVars, ovVars, rnVars>>
notTet == <<linVars, geoVars, sigVars, wlVars, jacVars, pdVars, tdVars, niVars, rpVars, lgVars, gsVars, pjVars, dtVars, seVars, rkVars, thVars, pmVars, ovVars, rnVars>>
notPd == <<linVars, geoVars, sigVars, wlVars, jacVars, tetVars, tdVars, niVars, rpVars, lgVars, gsVars, pjVars, dtVars, seVars, rkVars, thVars, pmVars, ovVars, rnVars>>
notTd == <<linVars, geoVars, sigVars, wlVars, jacVars, tetVars, pdVars, niVars, rpVars, lgVars, gsVars, pjVars, dtVars, seVars, rkVars, thVars, pmVars, ovVars, rnVars>>
notNi == <<linVars, geoVars, sigVars, wlVars, jacVars, tetVars, pdVars, tdVars, rpVars, lgVars, gsVars, pjVars, dtVars, seVars, rkVars, thVars, pmVars, ovVars, rnVars>>
notRp == <<linVars, geoVars, sigVars, wlVars, jacVars, tetVars, pdVars, tdVars, niVars, lgVars, gsVars, pjVars, dtVars, seVars, rkVars, thVars, pmVars, ovVars, rnVars>>
notLg == <<linVars, geoVars, sigVars, wlVars, jacVars, tetVars, pdVars, tdVars, niVars, rpVars, gsVars, pjVars, dtVars, seVars, rkVars, thVars, pmVars, ovVars, rnVars>>
notGs == <<linVars, geoVars, sigVars, wlVars, jacVars, tetVars, pdVars, tdVars, niVars, rpVars, lgVars, pjVars, dtVars, seVars, rkVars, thVars, pmVars, ovVars, rnVars>>
notPj == <<linVars, geoVars, sigVars, wlVars, jacVars, tetVars, pdVars, tdVars, niVars, rpVars, lgVars, gsVars, dtVars, seVars, rkVars, thVars, pmVars, ovVars, rnVars>>
notDt == <<linVars, geoVars, sigVars, wlVars, jacVars, tetVars, pdVars, tdVars, niVars, rpVars, lgVars, gsVars, pjVars, seVars, rkVars, thVars, pmVars, ovVars, rnVars>>
notSe == <<linVars, geoVars, sigVars, wlVars, jacVars, tetVars, pdVars, tdVars, niVars, rpVars, lgVars, gsVars, pjVars, dtVars, rkVars, thVars, pmVars, ovVars, rnVars>>
notRk == <<linVars, geoVars, sigVars, wlVars, jacVars, tetVars, pdVars, tdVars, niVars, rpVars, lgVars, gsVars, pjVars, dtVars, seVars, thVars, pmVars, ovVars, rnVars>>
notTh == <<linVars, geoVars, sigVars, wlVars, jacVars, tetVars, pdVars, tdVars, niVars, rpVars, lgVars, gsVars, pjVars, dtVars, seVars, rkVars, pmVars, ovVars, rnVars>>
notPm == <<linVars, geoVars, sigVars, wlVars, jacVars, tetVars, pdVars, tdVars, niVars, rpVars, lgVars, gsVars, pjVars, dtVars, seVars, rkVars, thVars, ovVars, rnVars>>
notOv == <<linVars, geoVars, sigVars, wlVars, jacVars, tetVars, pdVars, tdVars, niVars, rpVars, lgVars, gsVars, pjVars, dtVars, seVars, rkVars, thVars, pmVars, rnVars>>
notRn == <<linVars, geoVars, sigVars, wlVars, jacVars, tetVars, pdVars, tdVars, niVars, rpVars, lgVars, gsVars, pjVars, dtVars, seVars, rkVars, thVars, pmVars, ovVars>>

(***************************************************************************)
(* cfg::real                                                               *)
(***************************************************************************)
Idx == 0..3

NaN == <<0, 0, 0>>
RZero == <<0, 1, 0>>
ROne == <<1, 1, 0>>
RHalf == <<5, 1, -1>>

IAbs(n) == IF n < 0 THEN -n ELSE n

RECURSIVE Gcd(_, _)
Gcd(a, b) == IF b = 0 THEN a ELSE Gcd(b, a % b)

RECURSIVE Pow10(_)
Pow10(k) == IF k = 0 THEN 1 ELSE 10 * Pow10(k - 1)

\* Canonical form of (n/d)*10^e for coprime n # 0, d > 0: 10 does not divide n
\* and d is coprime to 10.
RECURSIVE Canon(_, _, _)
Canon(n, d, e) ==
    IF n % 10 # 0 /\ d % 2 # 0 /\ d % 5 # 0 THEN <<n, d, e>>
    ELSE Canon(IF n % 10 = 0 THEN n \div 10 ELSE IF d % 10 = 0 THEN n
               ELSE IF d % 2 = 0 THEN n * 5 ELSE n * 2,
               IF n % 10 = 0 THEN d ELSE IF d % 10 = 0 THEN d \div 10
               ELSE IF d % 2 = 0 THEN d \div 2 ELSE d \div 5,
               IF n % 10 = 0 THEN e + 1 ELSE e - 1)

\* The real (n/d)*10^e, d >= 0; d = 0 is the non-finite value.
MkReal(n, d, e) ==
    IF d = 0 THEN NaN
    ELSE IF n = 0 THEN RZero
    ELSE LET g == Gcd(IAbs(n), d) IN Canon(n \div g, d \div g, e)

RInt(n) == MkReal(n, 1, 0)
RFrac(n, d) == MkReal(n, d, 0)

IsNaN(a) == a[2] = 0
Sign(a) == IF a[1] > 0 THEN 1 ELSE IF a[1] < 0 THEN -1 ELSE 0

RNeg(a) == <<-a[1], a[2], a[3]>>

RAdd(a, b) ==
    IF IsNaN(a) \/ IsNaN(b) THEN NaN
    ELSE IF a[1] = 0 THEN b
    ELSE IF b[1] = 0 THEN a
    ELSE LET e == IF a[3] < b[3] THEN a[3] ELSE b[3]
             na == a[1] * Pow10(a[3] - e)
             nb == b[1] * Pow10(b[3] - e)
             g == Gcd(a[2], b[2])
         IN MkReal(na * (b[2] \div g) + nb * (a[2] \div g), (a[2] \div g) * b[2], e)

RSub(a, b) == RAdd(a, RNeg(b))

\* (n1/d1)*(n2/d2)*10^e, cancelling the common factors g1 of n1, d2 and g2 of n2, d1
RMulBy(n1, d1, n2, d2, e, g1, g2) ==
    MkReal((n1 \div g1) * (n2 \div g2), (d1 \div g2) * (d2 \div g1), e)

RMul(a, b) ==
    IF IsNaN(a) \/ IsNaN(b) THEN NaN
    ELSE RMulBy(a[1], a[2], b[1], b[2], a[3] + b[3],
                Gcd(IAbs(a[1]), b[2]), Gcd(IAbs(b[1]), a[2]))

RDiv(a, b) ==
    IF IsNaN(a) \/ IsNaN(b) \/ b[1] = 0 THEN NaN
    ELSE RMulBy(a[1], a[2], Sign(b) * b[2], IAbs(b[1]), a[3] - b[3],
                Gcd(IAbs(a[1]), IAbs(b[1])), Gcd(b[2], a[2]))

\* std::fabs
fabs(a) == <<IAbs(a[1]), a[2], a[3]>>

\* (n1/d1)*10^k < n2/d2 and (n1/d1)*10^k <= n2/d2 for positive operands, k >= 0
RECURSIVE LtScaled(_, _, _, _, _)
LtScaled(n1, d1, n2, d2, k) ==
    IF k = 0 THEN n1 * d2 < n2 * d1
    ELSE IF n1 * d2 >= n2 * d1 THEN FALSE
    ELSE LtScaled(n1 * 10, d1, n2, d2, k - 1)

RECURSIVE LeScaled(_, _, _, _, _)
LeScaled(n1, d1, n2, d2, k) ==
    IF k = 0 THEN n1 * d2 <= n2 * d1
    ELSE IF n1 * d2 >= n2 * d1 THEN FALSE
    ELSE LeScaled(n1 * 10, d1, n2, d2, k - 1)

PosLt(a, b) ==
    IF a[3] >= b[3] THEN LtScaled(a[1], a[2], b[1], b[2], a[3] - b[3])
    ELSE ~LeScaled(b[1], b[2], a[1], a[2], b[3] - a[3])

\* a < b on reals; false when either is NaN
RLt(a, b) ==
    IF IsNaN(a) \/ IsNaN(b) THEN FALSE
    ELSE IF Sign(a) # Sign(b) THEN Sign(a) < Sign(b)
    ELSE IF Sign(a) = 0 THEN FALSE
    ELSE IF Sign(a) > 0 THEN PosLt(a, b)
    ELSE PosLt(RNeg(b), RNeg(a))

\* a == b on reals; false when either is NaN
REq(a, b) == ~IsNaN(a) /\ ~IsNaN(b) /\ a = b

RGt(a, b) == RLt(b, a)
RGe(a, b) == ~IsNaN(a) /\ ~IsNaN(b) /\ ~RLt(a, b)
RLe(a, b) == RGe(b, a)

\* std::max(a, b) == (a < b) ? b : a
RMax(a, b) == IF RLt(a, b) THEN b ELSE a

\* the largest r in lo..hi with r * r <= n
RECURSIVE ISqrt(_, _, _)
ISqrt(n, lo, hi) ==
    IF lo >= hi THEN lo
    ELSE IF ((lo + hi + 1) \div 2) * ((lo + hi + 1) \div 2) <= n
         THEN ISqrt(n, (lo + hi + 1) \div 2, hi)
         ELSE ISqrt(n, lo, ((lo + hi + 1) \div 2) - 1)

\* 46340 is the largest root of a 32-bit number
IRoot(n) == ISqrt(n, 0, IF n < 46340 THEN n ELSE 46340)
IsSquare(n) == IRoot(n) * IRoot(n) = n

\* std::sqrt on the squares of rationals, where it is exact.  A negative
\* radicand gives NaN as in IEEE; so does a radicand whose root is irrational,
\* which has no value in this number model: the inputs of the model are
\* chosen so that every root taken is rational.
RSqrt(a) ==
    IF IsNaN(a) \/ a[1] < 0 THEN NaN
    ELSE IF a[1] = 0 THEN RZero
    ELSE IF a[3] % 2 = 0 /\ IsSquare(a[1]) /\ IsSquare(a[2])
         THEN MkReal(IRoot(a[1]), IRoot(a[2]), a[3] \div 2)
         ELSE NaN

(***************************************************************************)
(* Fixed-size containers.  Tab4 builds the four entries eagerly.           *)
(***************************************************************************)
\* e, with v computed first: C++ evaluates a local when it is declared, so
\* the definitions below compute their locals before the loops that use them.
Strict(v, e) == IF v = v THEN e ELSE e

Tab4(fn(_)) == (0 :> fn(0)) @@ (1 :> fn(1)) @@ (2 :> fn(2)) @@ (3 :> fn(3))

\* s = 0; for (k = 0; k < 4; ++k) s += F(k);
Sum4(fn(_)) == RAdd(RAdd(RAdd(RAdd(RZero, fn(0)), fn(1)), fn(2)), fn(3))

Mat(fn(_, _)) == Tab4(LAMBDA row_ : Tab4(LAMBDA col_ : fn(row_, col_)))

\* mat4's default member initialiser: all zeros
mat4_default == Mat(LAMBDA r, c : RZero)

identity == Mat(LAMBDA r, c : IF r = c THEN ROne ELSE RZero)

diag(a0, a1, a2, a3) ==
    LET d == <<a0, a1, a2, a3>>
    IN Mat(LAMBDA r, c : IF r = c THEN d[r + 1] ELSE RZero)

minkowski_eta == diag(RInt(-1), RInt(1), RInt(1), RInt(1))

transpose(M) == Mat(LAMBDA r, c : M[c][r])

mul(M, N) == Mat(LAMBDA r, c : Sum4(LAMBDA k : RMul(M[r][k], N[k][c])))

\* sym4(const mat4& A): m[r][c] = 0.5 * (A[r][c] + A[c][r])
sym4_mut(M) == Mat(LAMBDA r, c : IF r <= c THEN M[r][c] ELSE RMul(RHalf, RAdd(M[r][c], M[c][r])))
sym4(M) == Mat(LAMBDA r, c : RMul(RHalf, RAdd(M[r][c], M[c][r])))

IsSymmetric(M) == \A i \in Idx, j \in Idx : REq(M[i][j], M[j][i])


(***************************************************************************)
(* linalg.hpp: inverse (Gauss-Jordan on the augmented 4x8 system)          *)
(***************************************************************************)
Tab8(fn(_)) ==
    (0 :> fn(0)) @@ (1 :> fn(1)) @@ (2 :> fn(2)) @@ (3 :> fn(3)) @@
    (4 :> fn(4)) @@ (5 :> fn(5)) @@ (6 :> fn(6)) @@ (7 :> fn(7))

\* aug[r][c] = A[r][c], aug[r][4+c] = (r == c) ? 1 : 0
aug_init(M) ==
    Tab4(LAMBDA r : Tab8(LAMBDA c :
        IF c < 4 THEN M[r][c] ELSE IF r = c - 4 THEN ROne ELSE RZero))

\* the pivot search: the first row r >= k of largest |aug[r][k]| (v > amax)
RECURSIVE pivot_search(_, _, _, _)
pivot_search(aug, k, r, piv) ==
    IF r > 3 THEN piv
    ELSE IF RGt(fabs(aug[r][k]), fabs(aug[piv][k]))
         THEN pivot_search(aug, k, r + 1, r)
         ELSE pivot_search(aug, k, r + 1, piv)

\* if (amax < eps) return false;
pivot_rejected_mut(amax, tol) == RLt(amax, RZero)
pivot_rejected(amax, tol) == RLt(amax, tol)

\* for (c = 0; c < 8; ++c) std::swap(aug[piv][c], aug[k][c]);
swap_rows_mut(aug, piv, k) ==
    Tab4(LAMBDA r : Tab8(LAMBDA c :
        IF c < 4 /\ r = k THEN aug[piv][c]
        ELSE IF c < 4 /\ r = piv THEN aug[k][c] ELSE aug[r][c]))
swap_rows(aug, piv, k) ==
    Tab4(LAMBDA r : IF r = k THEN aug[piv] ELSE IF r = piv THEN aug[k] ELSE aug[r])

\* for (c = 0; c < 8; ++c) aug[k][c] *= inv_akk;
scale_row(aug, k, inv_akk) ==
    Tab4(LAMBDA r : IF r = k THEN Tab8(LAMBDA c : RMul(aug[k][c], inv_akk)) ELSE aug[r])

\* rows r with lo <= r < hi: f = aug[r][k]; if (f == 0) continue; aug[r][c] -= f * aug[k][c]
eliminate(aug, k, lo, hi) ==
    Tab4(LAMBDA r :
        IF r >= lo /\ r < hi /\ aug[r][k] # RZero
        THEN Tab8(LAMBDA c : RSub(aug[r][c], RMul(aug[r][k], aug[k][c])))
        ELSE aug[r])

\* The forward loop from column k on.  A rejected pivot returns false with
\* out_det the product of the pivots taken so far and Ainv not written.
RECURSIVE forward(_, _, _, _, _)

\* the next iteration of the loop, on the eliminated system
forward_next(el, k, sign, det, tol) == Strict(el, forward(el, k + 1, sign, det, tol))

\* akk = aug[k][k]; det *= akk; scale row k by 1/akk; eliminate the rows below
forward_row(sw, k, sign, det, tol) ==
    forward_next(eliminate(scale_row(sw, k, RDiv(ROne, sw[k][k])), k, k + 1, 4),
                 k, sign, RMul(det, sw[k][k]), tol)

\* if (amax < eps) return false; if (piv != k) { swap rows; sign = -sign; }
forward_pivot(aug, k, piv, sign, det, tol) ==
    IF pivot_rejected(fabs(aug[piv][k]), tol)
    THEN [ok |-> FALSE, aug |-> aug, sign |-> sign, det |-> det]
    ELSE forward_row(IF piv # k THEN swap_rows(aug, piv, k) ELSE aug, k,
                     IF piv # k THEN -sign ELSE sign, det, tol)

forward(aug, k, sign, det, tol) ==
    IF k > 3 THEN [ok |-> TRUE, aug |-> aug, sign |-> sign, det |-> det]
    ELSE forward_pivot(aug, k, pivot_search(aug, k, k + 1, k), sign, det, tol)

\* for (k = 3; k >= 0; --k) for (r = 0; r < k; ++r) ...
RECURSIVE back_substitute(_, _)
back_substitute_next(el, k) == Strict(el, back_substitute(el, k - 1))
back_substitute(aug, k) ==
    IF k < 0 THEN aug ELSE back_substitute_next(eliminate(aug, k, 0, k), k)

\* real eps = real(1e-14)
eps_default == MkReal(1, 1, -14)

\* out_det *= sign; Ainv[r][c] = aug[r][4+c]; return true
inverse_done(f, b) ==
    [ok |-> TRUE,
     Ainv |-> Mat(LAMBDA r, c : b[r][4 + c]),
     det |-> RMul(f.det, RInt(f.sign)),
     sign |-> f.sign]

\* the outcome of inverse given the outcome f of its forward loop
inverse_result(f, Ainv_in) ==
    IF ~f.ok
    THEN [ok |-> FALSE, Ainv |-> Ainv_in, det |-> f.det, sign |-> f.sign]
    ELSE inverse_done(f, back_substitute(f.aug, 3))

\* inverse(A, Ainv, out_det, out_cond_inf, eps): the return value and the
\* out-parameters after the call, given the caller's Ainv before it.
inverse(M, Ainv_in, tol) ==
    inverse_result(forward(aug_init(M), 0, 1, ROne, tol), Ainv_in)

(***************************************************************************)
(* field.hpp: IMetricField implementations.  A field maps a point to a    *)
(* sym4; the bounded family holds MinkowskiField, constant fields and     *)
(* polynomial fields (user-defined implementations of the interface).     *)
(***************************************************************************)
Vec(a, b, c, d) == (0 :> a) @@ (1 :> b) @@ (2 :> c) @@ (3 :> d)

\* a constant, symmetric, non-diagonal, invertible matrix
const_sheared ==
    Mat(LAMBDA r, c :
        IF r = c THEN (IF r = 0 THEN RInt(-2) ELSE RInt(1))
        ELSE IF {r, c} = {0, 1} THEN RFrac(1, 2) ELSE RZero)

\* a constant symmetric matrix with a zero row: inverse fails on it
const_singular == diag(RInt(-1), RInt(1), RZero, RInt(1))

\* a constant diagonal Lorentzian matrix with a slowed clock
const_slow == diag(RInt(-4), RInt(1), RInt(1), RInt(1))

\* IMetricField::g(x)
FieldG(F, x) ==
    CASE F = "minkowski" -> minkowski_eta
      [] F = "const_sheared" -> const_sheared
      [] F = "const_singular" -> const_singular
      [] F = "const_slow" -> const_slow
      [] F = "bilinear" ->
            diag(RInt(-1), RAdd(ROne, RMul(x[0], x[1])), RInt(1), RInt(1))
      [] F = "cubic" ->
            diag(RInt(-1), RInt(1), RAdd(ROne, RMul(RMul(x[1], x[1]), x[1])), RInt(1))
      [] F = "time_well" ->
            diag(RNeg(RMul(RAdd(ROne, RMul(x[0], x[0])), RAdd(ROne, RMul(x[0], x[0])))),
                 RInt(1), RInt(1), RInt(1))
      [] F = "time_scaled" ->
            diag(RNeg(RMul(RAdd(ROne, x[0]), RAdd(ROne, x[0]))), RInt(1), RInt(1), RInt(1))
      [] F = "shear_x" ->
            Mat(LAMBDA r, c :
                IF r = c THEN (IF r = 0 THEN RInt(-1) ELSE RInt(1))
                ELSE IF {r, c} = {0, 1} THEN RMul(x[1], x[2]) ELSE RZero)

ConstantFields == {"minkowski", "const_sheared", "const_singular", "const_slow"}

(***************************************************************************)
(* deriv.hpp                                                               *)
(***************************************************************************)
\* xp = x; xp.v[a] += h
shift(x, a, h) == Tab4(LAMBDA i : IF i = a THEN RAdd(x[i], h) ELSE x[i])

\* dmetric(F, x, a, h): d[r][c] = (gp[r][c] - gm[r][c]) * (0.5 / h)
dmetric_mut(F, x, a, h) ==
    LET gp == FieldG(F, shift(x, a, h))
        gm == FieldG(F, shift(x, a, RNeg(h)))
        s == RDiv(RHalf, h)
    IN Mat(LAMBDA r, c : RMul(RAdd(gp[r][c], gm[r][c]), s))
dmetric(F, x, a, h) ==
    LET gp == FieldG(F, shift(x, a, h))
        gm == FieldG(F, shift(x, a, RNeg(h)))
        s == RDiv(RHalf, h)
    IN Mat(LAMBDA r, c : RMul(RSub(gp[r][c], gm[r][c]), s))

\* dmetric4(F, x, h): dg[a] = dmetric(F, x, a, h)
dmetric4(F, x, h) == Tab4(LAMBDA a : dmetric(F, x, a, h))

(***************************************************************************)
(* connection.hpp                                                          *)
(***************************************************************************)
\* prepare_metric(F, x); h is units::C().fd_h, the default step of dmetric4
MetricPack(g, inv, dg) == [g |-> g, g_inv |-> inv.Ainv, dg |-> dg, inv_ok |-> inv.ok]

\* P.inv_ok = inverse(P.g, inv, det, cond, 1e-14); P.g_inv = inv
prepare_inverse_mut(g, dg) == MetricPack(g, inverse(g, identity, eps_default), dg)
prepare_inverse(g, dg) == MetricPack(g, inverse(g, mat4_default, eps_default), dg)

prepare_metric(F, x, h) == prepare_inverse(FieldG(F, x), dmetric4(F, x, h))

\* term = dg[a][nu][b] + dg[b][nu][a] - dg[nu][a][b]
christoffel_term_mut(dg, a, b, nu) ==
    RSub(RAdd(dg[a][nu][b], dg[a][nu][b]), dg[nu][a][b])
christoffel_term(dg, a, b, nu) ==
    RSub(RAdd(dg[a][nu][b], dg[b][nu][a]), dg[nu][a][b])

\* christoffel(M): G[mu][a][b] = 0.5 * sum_nu g_inv[mu][nu] * term
christoffel(M) ==
    Strict(M,
        Tab4(LAMBDA mu : Tab4(LAMBDA a : Tab4(LAMBDA b :
            RMul(RHalf, Sum4(LAMBDA nu :
                RMul(M.g_inv[mu][nu], christoffel_term(M.dg, a, b, nu))))))))

(***************************************************************************)
(* curvature.hpp                                                           *)
(***************************************************************************)
\* dG[mu][nu][b] = (Gp[mu][nu][b] - Gm[mu][nu][b]) * s
dGamma_diff(Gp, Gm, s) ==
    Strict(<<Gp, Gm>>,
        Tab4(LAMBDA mu : Tab4(LAMBDA nu : Tab4(LAMBDA b :
            RMul(RSub(Gp[mu][nu][b], Gm[mu][nu][b]), s)))))

\* dGamma_dir(F, x, a, h): central difference of Gamma rebuilt at x +- h e_a
dGamma_dir(F, x, a, h) ==
    dGamma_diff(christoffel(prepare_metric(F, shift(x, a, h), h)),
                christoffel(prepare_metric(F, shift(x, a, RNeg(h)), h)),
                RDiv(RHalf, h))

\* for sig: s += G[mu][sig][a] * G[sig][nu][b]; s -= G[mu][sig][b] * G[sig][nu][a]
RECURSIVE riemann_products_mut(_, _, _, _, _, _, _)
riemann_products_mut(G, mu, nu, a, b, sig, s) ==
    IF sig > 3 THEN s
    ELSE Strict(s, riemann_products_mut(G, mu, nu, a, b, sig + 1,
            RAdd(RAdd(s, RMul(G[mu][sig][a], G[sig][nu][b])),
                 RMul(G[mu][sig][b], G[sig][nu][a]))))
RECURSIVE riemann_products(_, _, _, _, _, _, _)
riemann_products(G, mu, nu, a, b, sig, s) ==
    IF sig > 3 THEN s
    ELSE Strict(s, riemann_products(G, mu, nu, a, b, sig + 1,
            RSub(RAdd(s, RMul(G[mu][sig][a], G[sig][nu][b])),
                 RMul(G[mu][sig][b], G[sig][nu][a]))))

\* R[mu][nu][a][b] = dG[a][mu][nu][b] - dG[b][mu][nu][a] + the products
riemann_assemble(G, dG) ==
    Strict(<<G, dG>>,
        Tab4(LAMBDA mu : Tab4(LAMBDA nu : Tab4(LAMBDA a : Tab4(LAMBDA b :
            riemann_products(G, mu, nu, a, b, 0,
                RSub(dG[a][mu][nu][b], dG[b][mu][nu][a])))))))

\* riemann_at(F, x): G at x, dG[a] = dGamma_dir(F, x, a, h)
riemann_at(F, x, h) ==
    riemann_assemble(christoffel(prepare_metric(F, x, h)),
                     Tab4(LAMBDA a : dGamma_dir(F, x, a, h)))

\* ricci(R): Rc[a][b] = sum_mu R[mu][a][mu][b]
ricci(R) == Mat(LAMBDA a, b : Sum4(LAMBDA mu : R[mu][a][mu][b]))

\* scalar(g_inv, Ric) = sum_a sum_b g_inv[a][b] * Ric[a][b]
RECURSIVE scalar_sum(_, _, _, _)
scalar_sum(g_inv, Ric, i, s) ==
    IF i > 15 THEN s
    ELSE Strict(s, scalar_sum(g_inv, Ric, i + 1,
            RAdd(s, RMul(g_inv[i \div 4][i % 4], Ric[i \div 4][i % 4]))))
scalar(g_inv, Ric) == scalar_sum(g_inv, Ric, 0, RZero)

(***************************************************************************)
(* physics/einstein_fit.hpp                                                *)
(***************************************************************************)
\* G[i][j] = Rc[i][j] - 0.5 * g[i][j] * R
einstein_combine(Rc, g, Rs) ==
    Strict(Rs, Mat(LAMBDA i, j : RSub(Rc[i][j], RMul(RMul(RHalf, g[i][j]), Rs))))

\* R = scalar(prepare_metric(F, x).g_inv, Rc)
einstein_scalar(Rc, g, P) == Strict(<<Rc, g, P>>, einstein_combine(Rc, g, scalar(P.g_inv, Rc)))

\* einstein_at(F, x): Rm = riemann_at(F, x); Rc = ricci(Rm); g = F.g(x)
einstein_at(F, x, h) ==
    einstein_scalar(ricci(riemann_at(F, x, h)), FieldG(F, x), prepare_metric(F, x, h))

(***************************************************************************)
(* The caller of the geometry pipeline: one field, one query point, and    *)
(* the calls dmetric4, prepare_metric, christoffel, riemann_at, ricci,     *)
(* scalar, einstein_at made in that order on it.                           *)
(***************************************************************************)
GeoFields == ConstantFields \cup {"bilinear", "shear_x"}

GeoPoints ==
    { Vec(RZero, RZero, RZero, RZero),
      Vec(RZero, RInt(1), RZero, RZero),
      Vec(RInt(1), RInt(2), RInt(1), RInt(-1)) }

\* values of units::C().fd_h (runtime-modifiable; 1e-4 is its default)
fd_h_default == MkReal(1, 1, -4)
GeoSteps == {RFrac(1, 2), ROne}

gamma_default == Tab4(LAMBDA mu : mat4_default)
riemann_default == Tab4(LAMBDA mu : gamma_default)
pack_default ==
    [g |-> mat4_default, g_inv |-> mat4_default, dg |-> gamma_default, inv_ok |-> FALSE]

GeoOff ==
    /\ geo_pc = "off"
    /\ field = "minkowski"
    /\ pt = Vec(RZero, RZero, RZero, RZero)
    /\ dg4 = gamma_default
    /\ pack = pack_default
    /\ gam = gamma_default
    /\ riem = riemann_default
    /\ ric = mat4_default
    /\ rscal = RZero
    /\ ein = mat4_default

GeoInit ==
    /\ geo_pc = "start"
    /\ field \in GeoFields
    /\ pt \in GeoPoints
    /\ fd_h \in (IF field \in ConstantFields THEN GeoSteps \cup {fd_h_default} ELSE GeoSteps)
    /\ dg4 = gamma_default
    /\ pack = pack_default
    /\ gam = gamma_default
    /\ riem = riemann_default
    /\ ric = mat4_default
    /\ rscal = RZero
    /\ ein = mat4_default

CallDMetric4 ==
    /\ geo_pc = "start"
    /\ dg4' = dmetric4(field, pt, fd_h)
    /\ geo_pc' = "dmetric4"
    /\ UNCHANGED <<field, pt, pack, gam, riem, ric, rscal, ein>>
    /\ UNCHANGED <<fd_h, notGeo>>

CallPrepareMetric ==
    /\ geo_pc = "dmetric4"
    /\ pack' = prepare_metric(field, pt, fd_h)
    /\ geo_pc' = "prepare_metric"
    /\ UNCHANGED <<field, pt, dg4, gam, riem, ric, rscal, ein>>
    /\ UNCHANGED <<fd_h, notGeo>>

CallChristoffel ==
    /\ geo_pc = "prepare_metric"
    /\ gam' = christoffel(pack)
    /\ geo_pc' = "christoffel"
    /\ UNCHANGED <<field, pt, dg4, pack, riem, ric, rscal, ein>>
    /\ UNCHANGED <<fd_h, notGeo>>

CallRiemannAt ==
    /\ geo_pc = "christoffel"
    /\ riem' = riemann_at(field, pt, fd_h)
    /\ geo_pc' = "riemann_at"
    /\ UNCHANGED <<field, pt, dg4, pack, gam, ric, rscal, ein>>
    /\ UNCHANGED <<fd_h, notGeo>>

CallRicci ==
    /\ geo_pc = "riemann_at"
    /\ ric' = ricci(riem)
    /\ geo_pc' = "ricci"
    /\ UNCHANGED <<field, pt, dg4, pack, gam, riem, rscal, ein>>
    /\ UNCHANGED <<fd_h, notGeo>>

CallScalar ==
    /\ geo_pc = "ricci"
    /\ rscal' = scalar(pack.g_inv, ric)
    /\ geo_pc' = "scalar"
    /\ UNCHANGED <<field, pt, dg4, pack, gam, riem, ric, ein>>
    /\ UNCHANGED <<fd_h, notGeo>>

CallEinsteinAt ==
    /\ geo_pc = "scalar"
    /\ ein' = einstein_at(field, pt, fd_h)
    /\ geo_pc' = "einstein_at"
    /\ UNCHANGED <<field, pt, dg4, pack, gam, riem, ric, rscal>>
    /\ UNCHANGED <<fd_h, notGeo>>

GeoNext ==
    \/ CallDMetric4
    \/ CallPrepareMetric
    \/ CallChristoffel
    \/ CallRiemannAt
    \/ CallRicci
    \/ CallScalar
    \/ CallEinsteinAt

(***************************************************************************)
(* The caller of linalg.hpp                                                *)
(***************************************************************************)
Row(a, b, c, d) == (0 :> a) @@ (1 :> b) @@ (2 :> c) @@ (3 :> d)

\* the rows the bounded input matrices are made of
LinRows ==
    { Row(RZero, RZero, RZero, RZero),
      Row(RZero, RInt(1), RInt(2), RZero),
      Row(RInt(2), RInt(1), RZero, RInt(1)),
      Row(RInt(1), RZero, RZero, RInt(3)),
      Row(RInt(-1), RFrac(1, 2), RZero, RInt(2)),
      Row(RZero, RZero, RInt(1), RInt(1)) }

LinMatrices == [Idx -> LinRows]

\* the default tolerance and a coarse one
LinTolerances == {eps_default, RFrac(1, 2)}

LinOff ==
    /\ lin_pc = "off"
    /\ A = mat4_default
    /\ eps = RZero
    /\ Ainv = mat4_default
    /\ inv_ok = FALSE
    /\ out_det = RZero
    /\ sym_arg = mat4_default
    /\ S = mat4_default

LinInit ==
    /\ lin_pc = "start"
    /\ A \in LinMatrices
    /\ eps \in LinTolerances
    /\ Ainv = mat4_default
    /\ inv_ok = FALSE
    /\ out_det = RZero
    /\ sym_arg = mat4_default
    /\ S = mat4_default

\* bool ok = inverse(A, Ainv, det, cond, eps)
CallInverse ==
    /\ lin_pc = "start"
    /\ LET r == inverse(A, Ainv, eps)
       IN /\ inv_ok' = r.ok
          /\ Ainv' = r.Ainv
          /\ out_det' = r.det
    /\ lin_pc' = "inverse"
    /\ UNCHANGED <<A, eps, sym_arg, S>>
    /\ UNCHANGED <<fd_h, notLin>>

\* sym4 S(M): of the argument matrix first, then of the sym4 just built
CallSym4 ==
    /\ lin_pc \in {"start", "sym4"}
    /\ LET arg == IF lin_pc = "start" THEN A ELSE S
       IN /\ sym_arg' = arg
          /\ S' = sym4(arg)
    /\ lin_pc' = IF lin_pc = "start" THEN "sym4" ELSE "sym4_again"
    /\ UNCHANGED <<A, eps, Ainv, inv_ok, out_det>>
    /\ UNCHANGED <<fd_h, notLin>>

LinNext == CallInverse \/ CallSym4

(***************************************************************************)
(* eigen_jacobi.hpp                                                        *)
(***************************************************************************)
\* the pairs (i, j), i < j, in the order of the two loops
OffDiag == <<<<0, 1>>, <<0, 2>>, <<0, 3>>, <<1, 2>>, <<1, 3>>, <<2, 3>>>>

RECURSIVE max_offdiag_scan(_, _, _)

\* v = fabs(A[i][j]); if (v > val) { val = v; p = i; q = j; }
max_offdiag_step(M, n, best, v) ==
    Strict(best,
        max_offdiag_scan(M, n + 1,
            IF RGt(v, best.val)
            THEN [p |-> OffDiag[n][1], q |-> OffDiag[n][2], val |-> v]
            ELSE best))

max_offdiag_scan(M, n, best) ==
    IF n > 6 THEN best
    ELSE max_offdiag_step(M, n, best, fabs(M[OffDiag[n][1]][OffDiag[n][2]]))

\* max_offdiag_abs(A, p, q, val): p = 0; q = 1; val = fabs(A[0][1]); then the scan
max_offdiag_last(M) ==
    CHOOSE n \in 1..6 :
        \A m \in 1..6 :
            \/ RGt(fabs(M[OffDiag[n][1]][OffDiag[n][2]]), fabs(M[OffDiag[m][1]][OffDiag[m][2]]))
            \/ /\ fabs(M[OffDiag[n][1]][OffDiag[n][2]]) = fabs(M[OffDiag[m][1]][OffDiag[m][2]])
               /\ m <= n
max_offdiag_abs_mut(M) ==
    [p |-> OffDiag[max_offdiag_last(M)][1], q |-> OffDiag[max_offdiag_last(M)][2],
     val |-> fabs(M[OffDiag[max_offdiag_last(M)][1]][OffDiag[max_offdiag_last(M)][2]])]
max_offdiag_abs(M) ==
    max_offdiag_scan(M, 1, [p |-> 0, q |-> 1, val |-> fabs(M[0][1])])

\* t = (tau >= 0) ? 1/(tau + sqrt(1 + tau*tau)) : 1/(tau - sqrt(1 + tau*tau))
jacobi_t(tau) ==
    IF RGe(tau, RZero)
    THEN RDiv(ROne, RAdd(tau, RSqrt(RAdd(ROne, RMul(tau, tau)))))
    ELSE RDiv(ROne, RSub(tau, RSqrt(RAdd(ROne, RMul(tau, tau)))))

\* c = 1/sqrt(1 + t*t)
jacobi_c(t) == RDiv(ROne, RSqrt(RAdd(ROne, RMul(t, t))))

\* the updates of A and Q by the rotation (t, c, s = t*c) in the plane (p, q)
jacobi_update(M, Q, p, q, t, c, s) ==
    [A |-> Mat(LAMBDA r, k :
              IF r = p /\ k = p THEN RSub(M[p][p], RMul(t, M[p][q]))
              ELSE IF r = q /\ k = q THEN RAdd(M[q][q], RMul(t, M[p][q]))
              ELSE IF {r, k} = {p, q} THEN RZero
              ELSE IF r = p THEN RSub(RMul(c, M[p][k]), RMul(s, M[q][k]))
              ELSE IF k = p THEN RSub(RMul(c, M[p][r]), RMul(s, M[q][r]))
              ELSE IF r = q THEN RAdd(RMul(s, M[p][k]), RMul(c, M[q][k]))
              ELSE IF k = q THEN RAdd(RMul(s, M[p][r]), RMul(c, M[q][r]))
              ELSE M[r][k]),
     Q |-> Mat(LAMBDA k, col :
              IF col = p THEN RSub(RMul(c, Q[k][p]), RMul(s, Q[k][q]))
              ELSE IF col = q THEN RAdd(RMul(s, Q[k][p]), RMul(c, Q[k][q]))
              ELSE Q[k][col])]

jacobi_rotate_c(M, Q, p, q, t, c) ==
    Strict(<<t, c>>, jacobi_update(M, Q, p, q, t, c, RMul(t, c)))

jacobi_rotate_t(M, Q, p, q, t) == jacobi_rotate_c(M, Q, p, q, t, jacobi_c(t))

\* jacobi_rotate(A, Q, p, q): A and Q after the call
jacobi_rotate(M, Q, p, q) ==
    IF p = q \/ M[p][q] = RZero THEN [A |-> M, Q |-> Q]
    ELSE jacobi_rotate_t(M, Q, p, q,
            jacobi_t(RDiv(RSub(M[q][q], M[p][p]), RMul(RInt(2), M[p][q]))))

\* int max_sweeps = 32
jacobi_max_sweeps_default == 32

\* real tol = real(1e-12)
jacobi_tol_default == MkReal(1, 1, -12)

RECURSIVE jacobi_sweeps(_, _, _, _)

jacobi_sweep_next(st, sweep, max_sweeps, tol) ==
    Strict(st, jacobi_sweeps(st, sweep + 1, max_sweeps, tol))

\* max_offdiag_abs(A, p, q, off); if (off < tol) break; jacobi_rotate(A, Q_out, p, q)
jacobi_sweep(st, off, sweep, max_sweeps, tol) ==
    IF RLt(off.val, tol) THEN st
    ELSE jacobi_sweep_next(jacobi_rotate(st.A, st.Q, off.p, off.q), sweep, max_sweeps, tol)

\* for (sweep = 0; sweep < max_sweeps; ++sweep)
jacobi_sweeps(st, sweep, max_sweeps, tol) ==
    IF sweep >= max_sweeps THEN st
    ELSE jacobi_sweep(st, max_offdiag_abs(st.A), sweep, max_sweeps, tol)

\* lam[i] = A[i][i]
jacobi_lam(st) == [Q |-> st.Q, lam |-> Tab4(LAMBDA i : st.A[i][i])]

\* jacobi_symmetric_4x4(A_in, Q_out, lam, max_sweeps, tol): Q_out and lam
jacobi_symmetric_4x4(A_in, max_sweeps, tol) ==
    jacobi_lam(jacobi_sweeps([A |-> A_in, Q |-> identity], 0, max_sweeps, tol))

(***************************************************************************)
(* metric.hpp                                                              *)
(***************************************************************************)
\* real eps = real(1e-10)
validate_eps_default == MkReal(1, 1, -10)

\* if (lam < -eps) ++nneg; else if (lam > eps) ++npos; else ++nzero;
count_signature(lam, tol) ==
    [nneg |-> Cardinality({i \in Idx : RLt(lam[i], RNeg(tol))}),
     npos |-> Cardinality({i \in Idx : ~RLt(lam[i], RNeg(tol)) /\ RGt(lam[i], tol)}),
     nzero |-> Cardinality({i \in Idx : ~RLt(lam[i], RNeg(tol)) /\ ~RGt(lam[i], tol)})]

\* validate_signature(g, nneg, npos, nzero, eps)
validate_signature(g, tol) ==
    count_signature(jacobi_symmetric_4x4(g, 64, MkReal(1, 1, -14)).lam, tol)

\* neg_count: the number of i with lam[i] < 0
neg_count(lam) == Cardinality({i \in Idx : RLt(lam[i], RZero)})

\* if (lam[i] < 0) { ++neg_count; if (neg_idx < 0 || absv[i] > absv[neg_idx]) neg_idx = i; }
RECURSIVE neg_scan(_, _, _)
neg_scan(lam, n, neg_idx) ==
    IF n > 3 THEN neg_idx
    ELSE neg_scan(lam, n + 1,
            IF RLt(lam[n], RZero) /\
               (neg_idx < 0 \/ RGt(fabs(lam[n]), fabs(lam[neg_idx])))
            THEN n ELSE neg_idx)

\* minabs = 0; for (i = 1; i < 4; ++i) if (absv[i] < absv[minabs]) minabs = i;
RECURSIVE minabs_scan(_, _, _)
minabs_scan(lam, n, minabs) ==
    IF n > 3 THEN minabs
    ELSE minabs_scan(lam, n + 1,
            IF RLt(fabs(lam[n]), fabs(lam[minabs])) THEN n ELSE minabs)

\* the index that will carry the single negative sign
negative_index_mut(lam) ==
    IF neg_count(lam) = 0 THEN minabs_scan(lam, 1, 0)
    ELSE CHOOSE i \in Idx :
            /\ RLt(lam[i], RZero)
            /\ \A j \in Idx : RLt(lam[j], RZero) =>
                    \/ RGt(fabs(lam[i]), fabs(lam[j]))
                    \/ (fabs(lam[i]) = fabs(lam[j]) /\ j <= i)
negative_index(lam) ==
    IF neg_count(lam) = 0 THEN minabs_scan(lam, 1, 0) ELSE neg_scan(lam, 0, -1)

\* real a = std::max(absv[i], eps)
signature_floor_mut(absv, tol) == absv
signature_floor(absv, tol) == RMax(absv, tol)

\* L[i] = (i == neg_idx) ? -a : +a;  D = diag(L)
signature_diag(lam, neg_idx, tol) ==
    Mat(LAMBDA r, c :
        IF r # c THEN RZero
        ELSE IF r = neg_idx THEN RNeg(signature_floor(fabs(lam[r]), tol))
        ELSE signature_floor(fabs(lam[r]), tol))

\* gP = (Q * D) * transpose(Q); sym4 out(gP)
signature_rebuild(Q, D) == Strict(<<Q, D>>, sym4(mul(mul(Q, D), transpose(Q))))

signature_project(e, tol) ==
    Strict(e, signature_rebuild(e.Q, signature_diag(e.lam, negative_index(e.lam), tol)))

\* validate_signature(out, nneg, npos, nzero); if (!(nneg == 1 && npos == 3)) TRACE_WARN
signature_warn(out, n) == [out |-> out, warned |-> ~(n.nneg = 1 /\ n.npos = 3)]

signature_check(out) ==
    Strict(out, signature_warn(out, validate_signature(out, validate_eps_default)))

\* real eps = real(1e-9)
project_eps_default == MkReal(1, 1, -9)

\* project_signature(g_in, eps): the sym4 returned and whether it warned
project_signature(g_in, tol) ==
    signature_check(signature_project(jacobi_symmetric_4x4(g_in, 64, MkReal(1, 1, -14)), tol))

(***************************************************************************)
(* tetrad.hpp: the floor build_tetrad hands to project_signature           *)
(***************************************************************************)
\* real eps = real(1e-12)
tetrad_eps_default == MkReal(1, 1, -12)

\* std::max(real(1e-12), eps)
tetrad_floor(tol) == RMax(MkReal(1, 1, -12), tol)

\* neg_idx = 0; for i: if (lam[i] < 0) { neg_idx = i; break; }
tetrad_neg_idx(lam) ==
    IF \E i \in Idx : RLt(lam[i], RZero)
    THEN CHOOSE i \in Idx :
            RLt(lam[i], RZero) /\ \A j \in Idx : j < i => ~RLt(lam[j], RZero)
    ELSE 0

\* real a = std::sqrt(std::max(std::fabs(lam[i]), eps)); Dinv[i][i] = 1/a
tetrad_dinv_entry(lam_i, tol) == RDiv(ROne, RSqrt(RMax(fabs(lam_i), tol)))

tetrad_dinv(lam, tol) ==
    Mat(LAMBDA i, j : IF i = j THEN tetrad_dinv_entry(lam[i], tol) ELSE RZero)

\* if (neg_idx != 0) for r: std::swap(E[r][0], E[r][neg_idx])
tetrad_permute_mut(E0, neg_idx) == E0
tetrad_permute(E0, neg_idx) ==
    Mat(LAMBDA r, c :
        IF c = 0 THEN E0[r][neg_idx]
        ELSE IF c = neg_idx THEN E0[r][0]
        ELSE E0[r][c])

\* M = E^T g E; M[i][j] -= eta[i][j]
tetrad_residual(M) == Mat(LAMBDA i, j : RSub(M[i][j], minkowski_eta[i][j]))

tetrad_fro_row(M, r) == Sum4(LAMBDA c : RMul(M[r][c], M[r][c]))

\* fro = 0; for r, c: fro += M[r][c]*M[r][c]; fro = sqrt(fro)
tetrad_fro(M) ==
    Strict(M, RSqrt(RAdd(RAdd(RAdd(tetrad_fro_row(M, 0), tetrad_fro_row(M, 1)),
                              tetrad_fro_row(M, 2)), tetrad_fro_row(M, 3))))

\* g_tilde_out = E * E^T; E_out = E; return fro
tetrad_result(E, g) ==
    Strict(E, [E |-> E,
               g_tilde |-> mul(E, transpose(E)),
               fro |-> tetrad_fro(tetrad_residual(mul(mul(transpose(E), g), E)))])

\* E0 = Q * Dinv, permuted
tetrad_frame(e, g, tol) ==
    Strict(e, tetrad_result(tetrad_permute(mul(e.Q, tetrad_dinv(e.lam, tol)),
                                           tetrad_neg_idx(e.lam)), g))

tetrad_decompose(g, tol) ==
    Strict(g, tetrad_frame(jacobi_symmetric_4x4(g, 64, MkReal(1, 1, -14)), g, tol))

\* build_tetrad(g_in, E_out, g_tilde_out, eps): E_out, g_tilde_out and the
\* returned Frobenius error
build_tetrad(g_in, tol) ==
    tetrad_decompose(project_signature(g_in, tetrad_floor(tol)).out, tol)

\* real eps = real(1e-12)
is_pd_eps_default == MkReal(1, 1, -12)

\* for i: if (lam[i] <= eps) return false; return true
is_pd_lam_mut(lam, tol) == \A i \in Idx : ~RLt(lam[i], tol)
is_pd_lam(lam, tol) == \A i \in Idx : ~RLe(lam[i], tol)

\* is_pd(Gt, eps)
is_pd(Gt, tol) == is_pd_lam(jacobi_symmetric_4x4(Gt, 64, MkReal(1, 1, -14)).lam, tol)

(***************************************************************************)
(* audits/pd_proxy.hpp                                                     *)
(***************************************************************************)
\* return linalg::mul(g, g)
pd_proxy_square_mut(g) == g
pd_proxy_square(g) == mul(g, g)

\* the order in which cholesky4 visits (i, j): for i, for j <= i
CholPairs ==
    << <<0, 0>>, <<1, 0>>, <<1, 1>>, <<2, 0>>, <<2, 1>>, <<2, 2>>,
       <<3, 0>>, <<3, 1>>, <<3, 2>>, <<3, 3>> >>

\* L.m[i][j] = v
mat4_put(L, i, j, v) == Mat(LAMBDA r, c : IF r = i /\ c = j THEN v ELSE L[r][c])

\* real sum = A[i][j]; for (k = 0; k < j; ++k) sum -= L[i][k] * L[j][k]
RECURSIVE cholesky_sum(_, _, _, _, _, _)
cholesky_sum(M, L, i, j, k, sum) ==
    IF k >= j THEN sum
    ELSE cholesky_sum(M, L, i, j, k + 1, RSub(sum, RMul(L[i][k], L[j][k])))

\* if (sum <= eps) return false
cholesky_pivot_rejected(sum, tol) == RLe(sum, tol)

RECURSIVE cholesky_scan(_, _, _, _)

cholesky_next(M, L, n, tol) == Strict(L, cholesky_scan(M, L, n + 1, tol))

\* i == j: L[i][j] = sqrt(sum) unless rejected; i != j: L[i][j] = sum / L[j][j]
cholesky_entry(M, L, n, i, j, sum, tol) ==
    IF i = j
    THEN IF cholesky_pivot_rejected(sum, tol) THEN [ok |-> FALSE, L |-> L]
         ELSE cholesky_next(M, mat4_put(L, i, j, RSqrt(sum)), n, tol)
    ELSE cholesky_next(M, mat4_put(L, i, j, RDiv(sum, L[j][j])), n, tol)

cholesky_scan(M, L, n, tol) ==
    IF n > 10 THEN [ok |-> TRUE, L |-> L]
    ELSE cholesky_entry(M, L, n, CholPairs[n][1], CholPairs[n][2],
            cholesky_sum(M, L, CholPairs[n][1], CholPairs[n][2], 0,
                         M[CholPairs[n][1]][CholPairs[n][2]]), tol)

\* real eps = real(0)
cholesky_eps_default == RZero

\* cholesky4(A, L, eps): the return value and L (L = mat4{} first)
cholesky4(M, tol) == cholesky_scan(M, mat4_default, 1, tol)

\* std::min(a, b) == (b < a) ? b : a
RMin(a, b) == IF RLt(b, a) THEN b ELSE a

\* PDReport{}: ok{false}, min_diagL{0}, max_diagL{0}
PDReport_default == [ok |-> FALSE, min_diagL |-> RZero, max_diagL |-> RZero]

\* min_diagL = max_diagL = L[0][0]; for i: min_diagL = min(.., L[i][i]); max likewise
pd_report(ch) ==
    IF ~ch.ok THEN PDReport_default
    ELSE [ok |-> TRUE,
          min_diagL |-> RMin(RMin(RMin(RMin(ch.L[0][0], ch.L[0][0]), ch.L[1][1]), ch.L[2][2]), ch.L[3][3]),
          max_diagL |-> RMax(RMax(RMax(RMax(ch.L[0][0], ch.L[0][0]), ch.L[1][1]), ch.L[2][2]), ch.L[3][3])]

\* check_pd(A)
check_pd(M) == pd_report(cholesky4(M, cholesky_eps_default))

(***************************************************************************)
(* field.hpp: IPotential implementations                                   *)
(***************************************************************************)
\* IPotential::V(x).  ZeroPotential returns 0; RadialPotential with k = 1
\* returns 0.5 * k * (x1^2 + x2^2 + x3^2); "ramp" is a caller's potential
\* V = 0.5 * x0, a constant force along the time axis.
PotentialV(P, x) ==
    CASE P = "zero" -> RZero
      [] P = "radial" ->
            RMul(RMul(RHalf, ROne),
                 RAdd(RAdd(RMul(x[1], x[1]), RMul(x[2], x[2])), RMul(x[3], x[3])))
      [] P = "ramp" -> RMul(RHalf, x[0])

\* gradV(P, x, h): g[a] = (V(xp) - V(xm)) * (0.5 / h)
gradV(P, x, h) ==
    Tab4(LAMBDA a :
        RMul(RSub(PotentialV(P, shift(x, a, h)), PotentialV(P, shift(x, a, RNeg(h)))),
             RDiv(RHalf, h)))

(***************************************************************************)
(* quadform.hpp                                                            *)
(***************************************************************************)
\* qform(g, v): s += v[r] * row, row = sum_c g[r][c] * v[c]
qform(g, v) ==
    Sum4(LAMBDA r : RMul(v[r], Sum4(LAMBDA c : RMul(g[r][c], v[c]))))

(***************************************************************************)
(* audits/time_dilation.hpp                                                *)
(***************************************************************************)
\* TDReport{}: gamma{1}, v_norm{0}, q_u{0}
TDReport_default == [gamma |-> ROne, v_norm |-> RZero, q_u |-> RZero]

\* k = 0; for (i = 1; i < 4; ++i) if (evals[i] < evals[k]) k = i;
RECURSIVE timelike_scan(_, _, _)
timelike_scan(evals, n, k) ==
    IF n > 3 THEN k
    ELSE timelike_scan(evals, n + 1, IF RLt(evals[n], evals[k]) THEN n ELSE k)

\* real scale = real(1) / std::sqrt(std::max(real(1e-30), -lam))
timelike_scale(lam) == RDiv(ROne, RSqrt(RMax(MkReal(1, 1, -30), RNeg(lam))))

\* vec4 e = column k of V; t = e * scale
timelike_column(V, k, scale) == Tab4(LAMBDA i : RMul(V[i][k], scale))

timelike_pick(e, k) == timelike_column(e.Q, k, timelike_scale(e.lam[k]))

timelike_eigen(e) == Strict(e, timelike_pick(e, timelike_scan(e.lam, 1, 0)))

\* timelike_unit(g): jacobi_symmetric_4x4 with its default budget and tolerance
timelike_unit(g) ==
    timelike_eigen(jacobi_symmetric_4x4(g, jacobi_max_sweeps_default, jacobi_tol_default))

\* gut = 0; for i, j: gut += u[i] * g[i][j] * t[j];  gamma = -gut
time_dilation_gut(g, u, t) ==
    Sum4(LAMBDA i : Sum4(LAMBDA j : RMul(RMul(u[i], g[i][j]), t[j])))

time_dilation_gamma(gut) == RNeg(gut)

\* vec4 w = u - gamma * t
time_dilation_w(u, gamma, t) == Tab4(LAMBDA i : RSub(u[i], RMul(gamma, t[i])))

\* real v2 = gw / std::max(real(1e-30), gamma*gamma)
time_dilation_v2(gw, gamma) == RDiv(gw, RMax(MkReal(1, 1, -30), RMul(gamma, gamma)))

\* v_norm = std::sqrt(std::max(real(0), v2))
time_dilation_v_norm_mut(v2) == RMax(RZero, v2)
time_dilation_v_norm(v2) == RSqrt(RMax(RZero, v2))

time_dilation_report(g, u, t, gamma) ==
    Strict(gamma,
           [gamma |-> gamma,
            v_norm |-> time_dilation_v_norm(
                          time_dilation_v2(qform(g, time_dilation_w(u, gamma, t)), gamma)),
            q_u |-> qform(g, u)])

time_dilation_with(g, u, t) ==
    Strict(t, time_dilation_report(g, u, t, time_dilation_gamma(time_dilation_gut(g, u, t))))

\* time_dilation(g, u)
time_dilation(g, u) == time_dilation_with(g, u, timelike_unit(g))

(***************************************************************************)
(* integrators.hpp                                                         *)
(***************************************************************************)
\* s = 0; for a_, b: s += G[mu][a_][b] * u[a_] * u[b]
RECURSIVE accel_sum(_, _, _, _, _)
accel_sum(G, u, mu, n, s) ==
    IF n > 15 THEN s
    ELSE Strict(s, accel_sum(G, u, mu, n + 1,
            RAdd(s, RMul(RMul(G[mu][n \div 4][n % 4], u[n \div 4]), u[n % 4]))))

\* a[mu] = -s
accel_gamma(G, u) == Tab4(LAMBDA mu : RNeg(accel_sum(G, u, mu, 0, RZero)))

\* if (P) { gV = gradV(*P, x); a[mu] += -(sum_nu g_inv[mu][nu] * gV[nu]); }
accel_force(a, g_inv, gV) ==
    Strict(<<a, gV>>,
        Tab4(LAMBDA mu : RAdd(a[mu], RNeg(Sum4(LAMBDA nu : RMul(g_inv[mu][nu], gV[nu]))))))

\* accel(M, G, u, P, x); h is units::C().fd_h, the default step of gradV
accel(M, G, u, P, x, h) ==
    IF P = "none" THEN accel_gamma(G, u)
    ELSE accel_force(accel_gamma(G, u), M.g_inv, gradV(P, x, h))

\* if (s >= 0) return;
renormalize_skip_mut(s) == RGt(s, RZero)
renormalize_skip(s) == RGe(s, RZero)

\* k = 1 / sqrt(-s); u[i] *= k
renormalize_scale(u, k) == Strict(k, Tab4(LAMBDA i : RMul(u[i], k)))

renormalize_by(u, s) ==
    IF renormalize_skip(s) THEN u
    ELSE renormalize_scale(u, RDiv(ROne, RSqrt(RNeg(s))))

\* renormalize_timelike(g, u): u after the call
renormalize_timelike(g, u) == renormalize_by(u, qform(g, u))

\* uh[i] = u[i] + 0.5 * dtau * a[i], for both half-steps of the velocity
half_kick(u, dtau, a) ==
    Tab4(LAMBDA i : RAdd(u[i], RMul(RMul(RHalf, dtau), a[i])))

\* x[i] += dtau * uh[i]
position_update_mut(x, dtau, uh) == Tab4(LAMBDA i : RMul(dtau, uh[i]))
position_update(x, dtau, uh) == Tab4(LAMBDA i : RAdd(x[i], RMul(dtau, uh[i])))

\* M = prepare_metric(F, x); G = christoffel(M); accel(M, G, u, P, x)
accel_pack(M, u, P, x, h) == Strict(M, accel(M, christoffel(M), u, P, x, h))

\* renormalize_timelike(M1.g, u): x and u after the step, with the locals
geodesic_renorm(x0, a0, uh, xn, g1, a1, un) ==
    Strict(un,
        [x |-> xn, u |-> renormalize_timelike(g1, un),
         x_old |-> x0, a0 |-> a0, uh |-> uh, a1 |-> a1, u_new |-> un,
         q |-> qform(g1, un)])

\* u[i] = uh[i] + 0.5 * dtau * a1[i]
geodesic_finish(x0, a0, uh, xn, g1, a1, dtau) ==
    Strict(a1, geodesic_renorm(x0, a0, uh, xn, g1, a1, half_kick(uh, dtau, a1)))

\* a1 = accel(M1, G1, uh, P, x)
geodesic_second(x0, a0, uh, xn, M1, P, dtau, h) ==
    Strict(M1, geodesic_finish(x0, a0, uh, xn, M1.g, accel_pack(M1, uh, P, xn, h), dtau))

\* M1 = prepare_metric(F, x) at the new position
geodesic_rebuild_mut(F, P, x0, a0, uh, xn, dtau, h) ==
    Strict(xn, geodesic_second(x0, a0, uh, xn, prepare_metric(F, x0, h), P, dtau, h))
geodesic_rebuild(F, P, x0, a0, uh, xn, dtau, h) ==
    Strict(xn, geodesic_second(x0, a0, uh, xn, prepare_metric(F, xn, h), P, dtau, h))

geodesic_move(F, P, x, a0, uh, dtau, h) ==
    Strict(uh, geodesic_rebuild(F, P, x, a0, uh, position_update(x, dtau, uh), dtau, h))

geodesic_half(F, P, x, u, a0, dtau, h) ==
    Strict(a0, geodesic_move(F, P, x, a0, half_kick(u, dtau, a0), dtau, h))

\* geodesic_step(F, P, x, u, dtau): x and u after the call, with the locals
geodesic_step(F, P, x, u, dtau, h) ==
    geodesic_half(F, P, x, u, accel_pack(prepare_metric(F, x, h), u, P, x, h), dtau, h)

\* rk4_geodesic(F, x, u, dtau, P): geodesic_step(F, P, x, u, dtau)
rk4_geodesic_mut(F, x, u, dtau, P, h) == geodesic_step(F, "none", x, u, dtau, h)
rk4_geodesic(F, x, u, dtau, P, h) == geodesic_step(F, P, x, u, dtau, h)

(***************************************************************************)
(* linalg.hpp: det (elimination with partial pivoting)                     *)
(***************************************************************************)
\* for r > k: f = A[r][k] / akk; for c >= k: A[r][c] -= f * A[k][c]
det_eliminate(M, k) ==
    Mat(LAMBDA r, c :
        IF r > k /\ c >= k
        THEN RSub(M[r][c], RMul(RDiv(M[r][k], M[k][k]), M[k][c]))
        ELSE M[r][c])

RECURSIVE det_loop(_, _, _, _)

det_next(M, k, sign, d) == Strict(M, det_loop(M, k + 1, sign, d))

\* akk = A[k][k]; det *= akk; eliminate the rows below
det_row(sw, k, sign, d) == det_next(det_eliminate(sw, k), k, sign, RMul(d, sw[k][k]))

\* if (amax == 0) return 0; if (piv != k) { swap rows; sign = -sign; }
det_pivot_mut(M, k, piv, sign, d) ==
    IF fabs(M[piv][k]) = RZero THEN [val |-> RZero, early |-> TRUE]
    ELSE det_row(IF piv # k THEN swap_rows(M, piv, k) ELSE M, k, sign, d)
det_pivot(M, k, piv, sign, d) ==
    IF fabs(M[piv][k]) = RZero THEN [val |-> RZero, early |-> TRUE]
    ELSE det_row(IF piv # k THEN swap_rows(M, piv, k) ELSE M, k,
                 IF piv # k THEN -sign ELSE sign, d)

det_loop(M, k, sign, d) ==
    IF k > 3 THEN [val |-> RMul(d, RInt(sign)), early |-> FALSE]
    ELSE det_pivot(M, k, pivot_search(M, k, k + 1, k), sign, d)

\* det(A): the value returned, and whether by the early return
det(M) == det_loop(M, 0, 1, ROne)

(***************************************************************************)
(* The caller of det and inverse: both on the same matrix.                 *)
(***************************************************************************)
DtOff ==
    /\ dt_pc = "off"
    /\ dt_M = mat4_default
    /\ dt_eps = eps_default
    /\ dt_det = [val |-> RZero, early |-> FALSE]
    /\ dt_inv = [ok |-> FALSE, det |-> RZero, sign |-> 1]

DtInit ==
    /\ dt_pc = "start"
    /\ dt_M \in LinMatrices
    /\ dt_eps \in LinTolerances
    /\ dt_det = [val |-> RZero, early |-> FALSE]
    /\ dt_inv = [ok |-> FALSE, det |-> RZero, sign |-> 1]

\* d = det(M)
CallDet ==
    /\ dt_pc = "start"
    /\ dt_det' = det(dt_M)
    /\ dt_pc' = "det"
    /\ UNCHANGED <<dt_M, dt_eps, dt_inv>>
    /\ UNCHANGED <<fd_h, notDt>>

SetInverse(r) == dt_inv' = [ok |-> r.ok, det |-> r.det, sign |-> r.sign]

\* ok = inverse(M, Ainv, out_det, out_cond_inf, eps)
CallInverseSame ==
    /\ dt_pc = "det"
    /\ SetInverse(inverse(dt_M, mat4_default, dt_eps))
    /\ dt_pc' = "inverse"
    /\ UNCHANGED <<dt_M, dt_eps, dt_det>>
    /\ UNCHANGED <<fd_h, notDt>>

DtNext == CallDet \/ CallInverseSame

(***************************************************************************)
(* telemetry/logger.hpp, logger.cpp, trace.hpp: the logger as the core     *)
(* calls see it, and the core calls with their TRACE statements            *)
(***************************************************************************)
\* enum class Level : uint8_t { trace=0, debug=1, info=2, warn=3, error_=4 }
Level == [trace |-> 0, debug |-> 1, info |-> 2, warn |-> 3, error_ |-> 4]

\* the member initialisers of Logger
Logger_default ==
    [enabled |-> TRUE, min_level |-> Level.trace, started |-> FALSE,
     log_counter |-> 0, lines |-> <<>>]

\* Logger::log in one thread: the two early returns, the auto-start, then
\* the record with the next log_id is written
Logger_log(L, lvl, name) ==
    IF ~L.enabled THEN L
    ELSE IF lvl < L.min_level THEN L
    ELSE [L EXCEPT !.started = TRUE,
                   !.log_counter = @ + 1,
                   !.lines = Append(@, [log_id |-> L.log_counter + 1, level |-> lvl, name |-> name])]

\* TRACE_DEBUG, TRACE_INFO, TRACE_WARN: if (_L.enabled()) _L.log(level, ...)
TRACE(L, lvl, name) == IF L.enabled THEN Logger_log(L, lvl, name) ELSE L

\* Throttle::tick() on the n-th call: n <= first || (stride && n % stride == 0)
Throttle_tick(n) == n <= 4 \/ n % 1000 = 0

\* a TRACE statement, guarded by gate, placed after the value out was
\* computed: it leaves out alone and hands the logger on
trace_stmt(out, L, gate, lvl, name) ==
    [out |-> out, L |-> IF gate THEN TRACE(L, lvl, name) ELSE L]

\* det: TRACE_DEBUG("det_A", A) first, TRACE_DEBUG("det", out) before the
\* final return, both under heavy_trace_enabled() && th.tick()
det_traced_end_mut(d, L, heavy) ==
    IF d.early \/ (heavy /\ L.enabled) THEN [out |-> RZero, L |-> L]
    ELSE trace_stmt(d.val, L, heavy /\ Throttle_tick(2), Level.debug, "det")
det_traced_end(d, L, heavy) ==
    IF d.early THEN [out |-> d.val, L |-> L]
    ELSE trace_stmt(d.val, L, heavy /\ Throttle_tick(2), Level.debug, "det")

det_traced(M, L, heavy) ==
    det_traced_end(det(M),
        trace_stmt(M, L, heavy /\ Throttle_tick(1), Level.debug, "det_A").L, heavy)

\* inverse: "inv_A" first; "inv_det", "inv_cond_inf", "Ainv" before return true
inverse_traced_end(r, L, heavy) ==
    IF ~r.ok THEN [out |-> r, L |-> L]
    ELSE trace_stmt(r,
            TRACE(TRACE(L, Level.debug, "inv_det"), Level.debug, "inv_cond_inf"),
            TRUE, Level.debug, "Ainv")

inverse_traced_gate(r, L, heavy) ==
    IF heavy /\ Throttle_tick(2) THEN inverse_traced_end(r, L, heavy) ELSE [out |-> r, L |-> L]

inverse_traced(M, Ainv_in, tol, L, heavy) ==
    inverse_traced_gate(inverse(M, Ainv_in, tol),
        trace_stmt(M, L, heavy /\ Throttle_tick(1), Level.debug, "inv_A").L, heavy)

\* validate_signature: TRACE_INFO("signature_counts", ...) last
validate_signature_traced(g, tol, L) ==
    trace_stmt(validate_signature(g, tol), L, TRUE, Level.info, "signature_counts")

\* project_signature: the validate_signature call, then TRACE_WARN if the
\* inertia is not (1, 3)
project_signature_traced_end(r, L) ==
    trace_stmt(r.out, validate_signature_traced(r.out, validate_eps_default, L).L,
               r.warned, Level.warn, "project_signature_warn")

project_signature_traced(g_in, tol, L) ==
    project_signature_traced_end(project_signature(g_in, tol), L)

\* build_tetrad: project_signature, then TRACE_INFO("tetrad_fro_error", fro)
build_tetrad_traced(g_in, tol, L) ==
    trace_stmt(build_tetrad(g_in, tol),
               project_signature_traced(g_in, tetrad_floor(tol), L).L,
               TRUE, Level.info, "tetrad_fro_error")

\* qform: TRACE_DEBUG("qform", s) before the return
qform_traced(g, v, L) == trace_stmt(qform(g, v), L, TRUE, Level.debug, "qform")

\* geodesic_step: inverse in both prepare_metric calls, qform in
\* renormalize_timelike
geodesic_step_traced_end(r, F, x, h, L, heavy) ==
    trace_stmt(r,
        inverse_traced(FieldG(F, r.x), mat4_default, eps_default,
            inverse_traced(FieldG(F, x), mat4_default, eps_default, L, heavy).L, heavy).L,
        TRUE, Level.debug, "qform")

geodesic_step_traced(F, P, x, u, dtau, h, L, heavy) ==
    geodesic_step_traced_end(geodesic_step(F, P, x, u, dtau, h), F, x, h, L, heavy)

(***************************************************************************)
(* The caller of metric.hpp: a symmetric matrix and a floor are handed to  *)
(* project_signature, and the result to validate_signature.                *)
(***************************************************************************)
\* the rotation by the angle of the 3-4-5 triangle in the plane (0, 1)
Rot345 ==
    Mat(LAMBDA r, c :
        IF r > 1 \/ c > 1 THEN (IF r = c THEN ROne ELSE RZero)
        ELSE IF r = c THEN RFrac(4, 5)
        ELSE IF r = 0 THEN RFrac(-3, 5) ELSE RFrac(3, 5))

\* eigenvalues in the plane (0, 1), which may be rotated
SigPlane ==
    { <<RInt(-1), RInt(1)>>, <<RInt(1), RInt(2)>>,
      <<RInt(-1), RInt(-2)>>, <<RInt(2), RInt(-3)>> }

\* eigenvalues on the axes 2 and 3: regular, zero, and tiny ones on either
\* side of the thresholds 1e-12, 1e-10 and 1e-9
SigAxes ==
    { <<RInt(1), RInt(1)>>, <<RInt(1), RZero>>, <<RZero, RZero>>,
      <<RInt(1), MkReal(1, 1, -11)>>, <<RInt(1), MkReal(5, 1, -10)>>,
      <<RInt(-3), RInt(1)>>, <<MkReal(-1, 1, -11), RInt(1)>> }

\* the symmetric matrix Q0 * diag(lam) * Q0^T
SigMatrix(Q0, pl, ax) ==
    sym4(mul(mul(Q0, diag(pl[1], pl[2], ax[1], ax[2])), transpose(Q0)))

SigInputs == { SigMatrix(Q0, pl, ax) : Q0 \in {identity, Rot345}, pl \in SigPlane, ax \in SigAxes }

\* the floors callers pass: project_signature's default and build_tetrad's
SigFloors == { project_eps_default, tetrad_floor(tetrad_eps_default) }

SigOff ==
    /\ sig_pc = "off"
    /\ sig_g = mat4_default
    /\ sig_eps = project_eps_default
    /\ sig_out = mat4_default
    /\ sig_warn = FALSE
    /\ nneg = 0 /\ npos = 0 /\ nzero = 0

SigInit ==
    /\ sig_pc = "start"
    /\ sig_g \in SigInputs
    /\ sig_eps \in SigFloors
    /\ sig_out = mat4_default
    /\ sig_warn = FALSE
    /\ nneg = 0 /\ npos = 0 /\ nzero = 0

SetProjected(res) ==
    /\ sig_out' = res.out
    /\ sig_warn' = res.warned

CallProjectSignature ==
    /\ sig_pc = "start"
    /\ SetProjected(project_signature(sig_g, sig_eps))
    /\ sig_pc' = "projected"
    /\ UNCHANGED <<sig_g, sig_eps, nneg, npos, nzero>>
    /\ UNCHANGED <<fd_h, notSig>>

SetCounts(n) ==
    /\ nneg' = n.nneg
    /\ npos' = n.npos
    /\ nzero' = n.nzero

CallValidateSignature ==
    /\ sig_pc = "projected"
    /\ SetCounts(validate_signature(sig_out, validate_eps_default))
    /\ sig_pc' = "validated"
    /\ UNCHANGED <<sig_g, sig_eps, sig_out, sig_warn>>
    /\ UNCHANGED <<fd_h, notSig>>

SigNext == CallProjectSignature \/ CallValidateSignature

(***************************************************************************)
(* The caller of project_signature with diagonal matrices: the Jacobi      *)
(* decomposition of diag(lam) makes no rotation and returns lam itself.    *)
(***************************************************************************)
\* eigenvalues: negative ones of two magnitudes, one between the floors, zero,
\* and positive ones of two magnitudes
PjValues == { RInt(-2), RInt(-1), MkReal(-1, 1, -11), RZero, RInt(1), RInt(2) }

PjVectors == { Vec(a, b, c, d) : a \in PjValues, b \in PjValues, c \in PjValues, d \in PjValues }

PjOff ==
    /\ pj_pc = "off"
    /\ pj_lam = Vec(RZero, RZero, RZero, RZero)
    /\ pj_eps = project_eps_default
    /\ pj_out = mat4_default

PjInit ==
    /\ pj_pc = "start"
    /\ pj_lam \in PjVectors
    /\ pj_eps \in SigFloors
    /\ pj_out = mat4_default

\* out = project_signature(sym4(diag(lam)), eps)
CallProjectSignatureDiag ==
    /\ pj_pc = "start"
    /\ pj_out' = project_signature(
                    sym4(diag(pj_lam[0], pj_lam[1], pj_lam[2], pj_lam[3])), pj_eps).out
    /\ pj_pc' = "projected"
    /\ UNCHANGED <<pj_lam, pj_eps>>
    /\ UNCHANGED <<fd_h, notPj>>

PjNext == CallProjectSignatureDiag

(***************************************************************************)
(* One call of jacobi_symmetric_4x4, taken one loop iteration at a time.   *)
(***************************************************************************)
\* the largest budget below the default that the caller passes
MaxBudget == 2

\* the rotation by the angle of the 3-4-5 triangle in the plane (2, 3)
Rot345b ==
    Mat(LAMBDA r, c :
        IF r < 2 \/ c < 2 THEN (IF r = c THEN ROne ELSE RZero)
        ELSE IF r = c THEN RFrac(4, 5)
        ELSE IF r = 2 THEN RFrac(-3, 5) ELSE RFrac(3, 5))

\* symmetric matrices that need no, one or two rotations
JacInputs ==
    { SigMatrix(Q0, pl, ax) :
        Q0 \in {identity, Rot345, mul(Rot345, Rot345b)},
        pl \in {<<RInt(-1), RInt(1)>>, <<RInt(1), RInt(2)>>},
        ax \in {<<RInt(1), RInt(1)>>, <<RInt(-3), RInt(1)>>, <<RInt(1), RZero>>} }

\* a symmetric matrix whose first rotation, in the plane (0, 1), changes the
\* entries of rows and columns 0 and 1 outside that plane
JacFull ==
    Mat(LAMBDA r, c :
        IF {r, c} = {0, 1} THEN RInt(12)
        ELSE IF {r, c} = {0, 2} THEN RInt(5)
        ELSE IF r = 1 /\ c = 1 THEN RInt(7)
        ELSE IF r = c /\ r > 1 THEN RInt(1)
        ELSE RZero)

JacBudgets == (0..MaxBudget) \cup {jacobi_max_sweeps_default}

\* the default of jacobi_symmetric_4x4, the 1e-14 its callers pass, and 0
JacTolerances == {jacobi_tol_default, MkReal(1, 1, -14), RZero}

JacOff ==
    /\ jac_pc = "off"
    /\ jac_in = mat4_default
    /\ jac_max = jacobi_max_sweeps_default
    /\ jac_tol = jacobi_tol_default
    /\ jac_A = mat4_default
    /\ jac_Q = mat4_default
    /\ jac_sweep = 0
    /\ jac_rot = 0
    /\ jac_lam = Vec(RZero, RZero, RZero, RZero)
    /\ jac_ret = "none"

\* mat4 A = A_in; Q_out = identity(); sweep = 0
JacInit ==
    /\ jac_pc = "loop"
    /\ jac_in \in JacInputs \cup {JacFull}
    /\ jac_max \in JacBudgets
    /\ jac_tol \in JacTolerances
    /\ jac_A = jac_in
    /\ jac_Q = identity
    /\ jac_sweep = 0
    /\ jac_rot = 0
    /\ jac_lam = Vec(RZero, RZero, RZero, RZero)
    /\ jac_ret = "none"

\* sweep < max_sweeps
jacobi_budget_left_mut(sweep, max_sweeps) == sweep <= max_sweeps
jacobi_budget_left(sweep, max_sweeps) == sweep < max_sweeps

SetJacobi(st) ==
    /\ jac_A' = st.A
    /\ jac_Q' = st.Q

\* one iteration that rotates: off >= tol; jacobi_rotate(A, Q_out, p, q); ++sweep
JacobiRotate ==
    /\ jac_pc = "loop"
    /\ jacobi_budget_left(jac_sweep, jac_max)
    /\ ~RLt(max_offdiag_abs(jac_A).val, jac_tol)
    /\ SetJacobi(jacobi_rotate(jac_A, jac_Q, max_offdiag_abs(jac_A).p, max_offdiag_abs(jac_A).q))
    /\ jac_sweep' = jac_sweep + 1
    /\ jac_rot' = jac_rot + 1
    /\ UNCHANGED <<jac_pc, jac_in, jac_max, jac_tol, jac_lam, jac_ret>>
    /\ UNCHANGED <<fd_h, notJac>>

\* if (off < tol) break
JacobiBreak ==
    /\ jac_pc = "loop"
    /\ jacobi_budget_left(jac_sweep, jac_max)
    /\ RLt(max_offdiag_abs(jac_A).val, jac_tol)
    /\ jac_pc' = "copy"
    /\ UNCHANGED <<jac_in, jac_max, jac_tol, jac_A, jac_Q, jac_sweep, jac_rot, jac_lam, jac_ret>>
    /\ UNCHANGED <<fd_h, notJac>>

\* the loop condition fails: the budget of sweeps is used up
JacobiExhaust ==
    /\ jac_pc = "loop"
    /\ ~jacobi_budget_left(jac_sweep, jac_max)
    /\ jac_pc' = "copy"
    /\ UNCHANGED <<jac_in, jac_max, jac_tol, jac_A, jac_Q, jac_sweep, jac_rot, jac_lam, jac_ret>>
    /\ UNCHANGED <<fd_h, notJac>>

\* for i: lam[i] = A[i][i]; return true
JacobiReturn ==
    /\ jac_pc = "copy"
    /\ jac_lam' = Tab4(LAMBDA i : jac_A[i][i])
    /\ jac_ret' = "true"
    /\ jac_pc' = "done"
    /\ UNCHANGED <<jac_in, jac_max, jac_tol, jac_A, jac_Q, jac_sweep, jac_rot>>
    /\ UNCHANGED <<fd_h, notJac>>

JacNext == JacobiRotate \/ JacobiBreak \/ JacobiExhaust \/ JacobiReturn

(***************************************************************************)
(* The caller of tetrad.hpp: build_tetrad on a symmetric matrix, then      *)
(* is_pd on the proxy it returned.                                         *)
(***************************************************************************)
\* eigenvalues in the plane (0, 1), which may be rotated
TetPlane ==
    { <<RInt(-1), RInt(1)>>, <<RInt(-4), RInt(1)>>,
      <<RInt(1), RInt(4)>>, <<RInt(-1), RFrac(1, 4)>> }

\* eigenvalues on the axes 2 and 3: regular, large, small, negative and zero
TetAxes ==
    { <<RInt(1), RInt(1)>>, <<RInt(4), MkReal(1, 1, 14)>>,
      <<RInt(1), MkReal(1, 1, 12)>>, <<MkReal(1, 1, 8), RInt(1)>>,
      <<MkReal(1, 1, -8), RInt(1)>>, <<RInt(-1), RInt(1)>>, <<RInt(1), RZero>> }

TetInputs == { SigMatrix(Q0, pl, ax) : Q0 \in {identity, Rot345}, pl \in TetPlane, ax \in TetAxes }

\* the default eps of build_tetrad and a larger one
TetFloors == { tetrad_eps_default, MkReal(1, 1, -8) }

TetOff ==
    /\ tet_pc = "off"
    /\ tet_g = mat4_default
    /\ tet_eps = tetrad_eps_default
    /\ tet_E = mat4_default
    /\ tet_gt = mat4_default
    /\ tet_fro = RZero
    /\ tet_pd = "none"

TetInit ==
    /\ tet_pc = "start"
    /\ tet_g \in TetInputs
    /\ tet_eps \in TetFloors
    /\ tet_E = mat4_default
    /\ tet_gt = mat4_default
    /\ tet_fro = RZero
    /\ tet_pd = "none"

SetTetrad(res) ==
    /\ tet_E' = res.E
    /\ tet_gt' = res.g_tilde
    /\ tet_fro' = res.fro

\* real fro = build_tetrad(g, E, g_tilde, eps)
CallBuildTetrad ==
    /\ tet_pc = "start"
    /\ SetTetrad(build_tetrad(tet_g, tet_eps))
    /\ tet_pc' = "built"
    /\ UNCHANGED <<tet_g, tet_eps, tet_pd>>
    /\ UNCHANGED <<fd_h, notTet>>

\* bool pd = is_pd(g_tilde)
CallIsPd ==
    /\ tet_pc = "built"
    /\ tet_pd' = (IF is_pd(tet_gt, is_pd_eps_default) THEN "true" ELSE "false")
    /\ tet_pc' = "checked"
    /\ UNCHANGED <<tet_g, tet_eps, tet_E, tet_gt, tet_fro>>
    /\ UNCHANGED <<fd_h, notTet>>

TetNext == CallBuildTetrad \/ CallIsPd

(***************************************************************************)
(* The caller of audits/pd_proxy.hpp: pd_proxy_square on a symmetric       *)
(* matrix, then check_pd on the proxy.                                     *)
(***************************************************************************)
\* symmetric 2x2 blocks: regular and singular ones, diagonal or not
PdBlocks ==
    { <<RInt(1), RZero, RInt(1)>>, <<RInt(-1), RZero, RInt(1)>>,
      <<RInt(-2), RZero, RHalf>>, <<RZero, RInt(1), RInt(1)>>,
      <<RZero, RInt(1), RZero>>, <<RInt(3), RInt(4), RInt(-3)>>,
      <<RInt(3), RInt(4), RZero>>, <<RInt(3), RInt(4), RFrac(16, 3)>>,
      <<RZero, RZero, RInt(1)>>, <<RInt(1), RZero, RZero>> }

\* the block-diagonal matrix of the blocks b = (b00, b01, b11) and c
PdBlockMatrix(b, c) ==
    Mat(LAMBDA r, k :
        IF r < 2 /\ k < 2 THEN (IF r # k THEN b[2] ELSE IF r = 0 THEN b[1] ELSE b[3])
        ELSE IF r >= 2 /\ k >= 2 THEN (IF r # k THEN c[2] ELSE IF r = 2 THEN c[1] ELSE c[3])
        ELSE RZero)

\* twice the Householder reflection along (1, 1, 1, 1): no zero entry
PdReflection == Mat(LAMBDA r, k : IF r = k THEN RInt(1) ELSE RInt(-1))

PdInputs ==
    { PdBlockMatrix(b, c) : b \in PdBlocks, c \in PdBlocks }
        \cup { PdReflection, SigMatrix(mul(Rot345, Rot345b), <<RInt(-1), RInt(1)>>, <<RInt(1), RInt(-1)>>) }

PdOff ==
    /\ pd_pc = "off"
    /\ pd_g = mat4_default
    /\ pd_gt = mat4_default
    /\ pd_rep = PDReport_default

PdInit ==
    /\ pd_pc = "start"
    /\ pd_g \in PdInputs
    /\ pd_gt = mat4_default
    /\ pd_rep = PDReport_default

\* mat4 gt = pd_proxy_square(g)
CallPdProxySquare ==
    /\ pd_pc = "start"
    /\ pd_gt' = pd_proxy_square(pd_g)
    /\ pd_pc' = "squared"
    /\ UNCHANGED <<pd_g, pd_rep>>
    /\ UNCHANGED <<fd_h, notPd>>

\* PDReport R = check_pd(gt)
CallCheckPd ==
    /\ pd_pc = "squared"
    /\ pd_rep' = check_pd(pd_gt)
    /\ pd_pc' = "checked"
    /\ UNCHANGED <<pd_g, pd_gt>>
    /\ UNCHANGED <<fd_h, notPd>>

PdNext == CallPdProxySquare \/ CallCheckPd

(***************************************************************************)
(* The caller of audits/time_dilation.hpp: one time_dilation call.         *)
(***************************************************************************)
TdMetrics ==
    { minkowski_eta,
      diag(RInt(-4), RInt(1), RInt(1), RInt(1)),
      diag(RInt(1), RInt(-1), RInt(1), RInt(1)),
      diag(RInt(-1), RInt(4), RInt(1), RInt(1)),
      diag(RFrac(-1, 4), RInt(1), RInt(1), RInt(1)),
      SigMatrix(Rot345, <<RInt(-1), RInt(1)>>, <<RInt(1), RInt(1)>>) }

\* velocities at rest and boosted by 3/5, 5/13, 4/5 and 15/17, future and
\* past directed, on and off the shell, null and spacelike
TdVelocities ==
    { Vec(RInt(1), RZero, RZero, RZero), Vec(RFrac(5, 4), RFrac(3, 4), RZero, RZero),
      Vec(RFrac(5, 4), RFrac(-3, 4), RZero, RZero), Vec(RFrac(5, 4), RZero, RFrac(3, 4), RZero),
      Vec(RFrac(13, 12), RFrac(5, 12), RZero, RZero), Vec(RFrac(5, 3), RFrac(4, 3), RZero, RZero),
      Vec(RFrac(5, 3), RZero, RZero, RFrac(4, 3)), Vec(RFrac(17, 8), RFrac(15, 8), RZero, RZero),
      Vec(RFrac(-5, 4), RFrac(3, 4), RZero, RZero), Vec(RInt(2), RZero, RZero, RZero),
      Vec(RInt(1), RInt(1), RZero, RZero), Vec(RZero, RInt(1), RZero, RZero),
      Vec(RFrac(5, 2), RFrac(3, 2), RZero, RZero) }

\* the pairs for which every square root of the call is rational
TdExact(g, u) == ~IsNaN(time_dilation(g, u).v_norm)

TdOff ==
    /\ td_pc = "off"
    /\ td_g = mat4_default
    /\ td_u = Vec(RZero, RZero, RZero, RZero)
    /\ td_t = Vec(RZero, RZero, RZero, RZero)
    /\ td_rep = TDReport_default

TdInit ==
    /\ td_pc = "start"
    /\ td_g \in TdMetrics
    /\ td_u \in { u \in TdVelocities : TdExact(td_g, u) }
    /\ td_t = Vec(RZero, RZero, RZero, RZero)
    /\ td_rep = TDReport_default

\* TDReport R = time_dilation(g, u)
CallTimeDilation ==
    /\ td_pc = "start"
    /\ td_t' = timelike_unit(td_g)
    /\ td_rep' = time_dilation(td_g, td_u)
    /\ td_pc' = "done"
    /\ UNCHANGED <<td_g, td_u>>
    /\ UNCHANGED <<fd_h, notTd>>

TdNext == CallTimeDilation

(***************************************************************************)
(* One core call made twice from the same arguments: once with the logger  *)
(* and the heavy-trace switch as the environment set them, once with the   *)
(* logger disabled and heavy tracing off.                                  *)
(***************************************************************************)
NiCall(op, g, v, tol, F, P, x, dtau) ==
    [op |-> op, g |-> g, v |-> v, tol |-> tol, F |-> F, P |-> P, x |-> x, dtau |-> dtau]

NiOrigin == Vec(RZero, RZero, RZero, RZero)

\* regular, needing a row swap, and singular (det returns early, inverse false)
NiMatrices ==
    { identity, const_sheared, const_singular,
      PdBlockMatrix(<<RZero, RInt(1), RInt(1)>>, <<RInt(1), RZero, RInt(2)>>) }

\* Lorentzian, with two negative eigenvalues, and with a zero eigenvalue
NiMetrics ==
    { minkowski_eta, SigMatrix(Rot345, <<RInt(-1), RInt(-2)>>, <<RInt(1), RInt(1)>>),
      diag(RInt(-1), RInt(1), RInt(1), RZero) }

NiCalls ==
    { NiCall("det", m, NiOrigin, RZero, "minkowski", "none", NiOrigin, RZero) : m \in NiMatrices }
    \cup { NiCall("inverse", m, NiOrigin, eps_default, "minkowski", "none", NiOrigin, RZero) :
             m \in NiMatrices }
    \cup { NiCall("validate_signature", g, NiOrigin, validate_eps_default, "minkowski", "none",
                  NiOrigin, RZero) : g \in NiMetrics }
    \cup { NiCall("project_signature", g, NiOrigin, tol, "minkowski", "none", NiOrigin, RZero) :
             g \in NiMetrics, tol \in SigFloors }
    \cup { NiCall("build_tetrad", g, NiOrigin, tetrad_eps_default, "minkowski", "none",
                  NiOrigin, RZero) : g \in NiMetrics }
    \cup { NiCall("qform", g, v, RZero, "minkowski", "none", NiOrigin, RZero) :
             g \in {minkowski_eta, const_sheared},
             v \in {Vec(RInt(1), RZero, RZero, RZero), Vec(RFrac(5, 4), RFrac(3, 4), RZero, RZero)} }
    \cup { NiCall("geodesic_step", mat4_default, Vec(RInt(1), RZero, RZero, RZero), RZero, F, P, x,
                  RHalf) :
             F \in {"minkowski", "bilinear"}, P \in {"none", "ramp"},
             x \in {NiOrigin, Vec(RZero, RInt(1), RZero, RZero)} }

\* the logger as RSLM_TRACE and set_min_level left it
NiLoggers ==
    { [Logger_default EXCEPT !.enabled = e, !.min_level = m] :
        e \in BOOLEAN, m \in {Level.trace, Level.info, Level.error_} }

NiQuiet == [Logger_default EXCEPT !.enabled = FALSE]

NiOff ==
    /\ ni_pc = "off"
    /\ ni_call = NiCall("det", mat4_default, NiOrigin, RZero, "minkowski", "none", NiOrigin, RZero)
    /\ ni_heavy = FALSE
    /\ ni_L = Logger_default
    /\ ni_out = RZero
    /\ ni_quiet = RZero

NiInit ==
    /\ ni_pc = "start"
    /\ ni_call \in NiCalls
    /\ ni_heavy \in BOOLEAN
    /\ ni_L \in NiLoggers
    /\ ni_out = RZero
    /\ ni_quiet = RZero

\* the traced run keeps its result and its logger; the quiet run its result
SetRuns(traced, quiet) ==
    /\ ni_out' = traced.out
    /\ ni_L' = traced.L
    /\ ni_quiet' = quiet.out
    /\ ni_pc' = "done"
    /\ UNCHANGED <<ni_call, ni_heavy>>
    /\ UNCHANGED <<fd_h, notNi>>

CallDetTwice ==
    /\ ni_pc = "start" /\ ni_call.op = "det"
    /\ SetRuns(det_traced(ni_call.g, ni_L, ni_heavy), det_traced(ni_call.g, NiQuiet, FALSE))

CallInverseTwice ==
    /\ ni_pc = "start" /\ ni_call.op = "inverse"
    /\ SetRuns(inverse_traced(ni_call.g, mat4_default, ni_call.tol, ni_L, ni_heavy),
               inverse_traced(ni_call.g, mat4_default, ni_call.tol, NiQuiet, FALSE))

CallValidateSignatureTwice ==
    /\ ni_pc = "start" /\ ni_call.op = "validate_signature"
    /\ SetRuns(validate_signature_traced(ni_call.g, ni_call.tol, ni_L),
               validate_signature_traced(ni_call.g, ni_call.tol, NiQuiet))

CallProjectSignatureTwice ==
    /\ ni_pc = "start" /\ ni_call.op = "project_signature"
    /\ SetRuns(project_signature_traced(ni_call.g, ni_call.tol, ni_L),
               project_signature_traced(ni_call.g, ni_call.tol, NiQuiet))

CallBuildTetradTwice ==
    /\ ni_pc = "start" /\ ni_call.op = "build_tetrad"
    /\ SetRuns(build_tetrad_traced(ni_call.g, ni_call.tol, ni_L),
               build_tetrad_traced(ni_call.g, ni_call.tol, NiQuiet))

CallQformTwice ==
    /\ ni_pc = "start" /\ ni_call.op = "qform"
    /\ SetRuns(qform_traced(ni_call.g, ni_call.v, ni_L),
               qform_traced(ni_call.g, ni_call.v, NiQuiet))

CallGeodesicStepTwice ==
    /\ ni_pc = "start" /\ ni_call.op = "geodesic_step"
    /\ SetRuns(geodesic_step_traced(ni_call.F, ni_call.P, ni_call.x, ni_call.v, ni_call.dtau,
                                    fd_h, ni_L, ni_heavy),
               geodesic_step_traced(ni_call.F, ni_call.P, ni_call.x, ni_call.v, ni_call.dtau,
                                    fd_h, NiQuiet, FALSE))

NiNext ==
    \/ CallDetTwice \/ CallInverseTwice \/ CallValidateSignatureTwice
    \/ CallProjectSignatureTwice \/ CallBuildTetradTwice \/ CallQformTwice
    \/ CallGeodesicStepTwice

(***************************************************************************)
(* The caller of units.hpp and the per-point calls: one call, writes to    *)
(* the constants object units::C(), then the same call again.              *)
(***************************************************************************)
\* Constants: c, g_eps, fd_h, dtau as they are now
UnitsNow == [c |-> ROne, g_eps |-> MkReal(1, 1, -12), fd_h |-> fd_h, dtau |-> rp_dtau]

\* the default argument h = rslm::units::C().fd_h, read when the call is made
units_step_mut(k) == k.dtau
units_step(k) == k.fd_h

MaxWrites == 2

RpCall(op, F, x, u, M) == [op |-> op, F |-> F, x |-> x, u |-> u, M |-> M]

RpPoints == { Vec(RZero, RZero, RZero, RZero), Vec(RZero, RInt(1), RZero, RZero) }

RpCalls ==
    { RpCall("prepare_metric", F, x, NiOrigin, pack_default) :
        F \in {"minkowski", "cubic"}, x \in RpPoints }
    \cup { RpCall("christoffel", F, x, NiOrigin, prepare_metric(F, x, RInt(2))) :
        F \in {"minkowski", "cubic"}, x \in RpPoints }
    \cup { RpCall(op, F, x, NiOrigin, pack_default) :
        op \in {"riemann_at", "einstein_at"}, F \in {"minkowski", "bilinear"}, x \in RpPoints }
    \cup { RpCall("geodesic_step", F, NiOrigin, u, pack_default) :
        F \in {"minkowski", "cubic"},
        u \in {Vec(RInt(1), RZero, RZero, RZero), Vec(RZero, RZero, RInt(1), RZero)} }

\* the values written to the members of units::C()
RpSteps(call) == IF call.F = "cubic" THEN {RInt(2), RInt(4)} ELSE GeoSteps

RpOff ==
    /\ rp_pc = "off"
    /\ rp_call = RpCall("prepare_metric", "minkowski", NiOrigin, NiOrigin, pack_default)
    /\ rp_dtau = RHalf
    /\ rp_writes = 0
    /\ rp_h1 = RZero /\ rp_h2 = RZero
    /\ rp_first = RZero /\ rp_second = RZero

RpInit ==
    /\ rp_pc = "start"
    /\ rp_call \in RpCalls
    /\ fd_h \in RpSteps(rp_call)
    /\ rp_dtau \in RpSteps(rp_call)
    /\ rp_writes = 0
    /\ rp_h1 = RZero /\ rp_h2 = RZero
    /\ rp_first = RZero /\ rp_second = RZero

\* units::C().fd_h = h
WriteFdH ==
    /\ rp_pc \in {"start", "first"}
    /\ rp_writes < MaxWrites
    /\ \E h \in RpSteps(rp_call) \ {fd_h} : fd_h' = h
    /\ rp_writes' = rp_writes + 1
    /\ UNCHANGED <<rp_pc, rp_call, rp_dtau, rp_h1, rp_h2, rp_first, rp_second>>
    /\ UNCHANGED notRp

\* units::C().dtau = d
WriteDtau ==
    /\ rp_pc \in {"start", "first"}
    /\ rp_writes < MaxWrites
    /\ \E d \in RpSteps(rp_call) \ {rp_dtau} : rp_dtau' = d
    /\ rp_writes' = rp_writes + 1
    /\ UNCHANGED <<rp_pc, rp_call, rp_h1, rp_h2, rp_first, rp_second>>
    /\ UNCHANGED <<fd_h, notRp>>

\* the caller keeps the result of the first call, then that of the second
KeepResult(res) ==
    /\ rp_pc \in {"start", "first"}
    /\ IF rp_pc = "start"
       THEN /\ rp_first' = res /\ rp_h1' = fd_h /\ rp_pc' = "first"
            /\ UNCHANGED <<rp_second, rp_h2>>
       ELSE /\ rp_second' = res /\ rp_h2' = fd_h /\ rp_pc' = "second"
            /\ UNCHANGED <<rp_first, rp_h1>>
    /\ UNCHANGED <<rp_call, rp_dtau, rp_writes>>
    /\ UNCHANGED <<fd_h, notRp>>

\* prepare_metric(F, x)
RepeatPrepareMetric ==
    /\ rp_call.op = "prepare_metric"
    /\ KeepResult(prepare_metric(rp_call.F, rp_call.x, units_step(UnitsNow)))

\* christoffel(M)
RepeatChristoffel ==
    /\ rp_call.op = "christoffel"
    /\ KeepResult(christoffel(rp_call.M))

\* riemann_at(F, x)
RepeatRiemannAt ==
    /\ rp_call.op = "riemann_at"
    /\ KeepResult(riemann_at(rp_call.F, rp_call.x, units_step(UnitsNow)))

\* einstein_at(F, x)
RepeatEinsteinAt ==
    /\ rp_call.op = "einstein_at"
    /\ KeepResult(einstein_at(rp_call.F, rp_call.x, units_step(UnitsNow)))

\* geodesic_step(F, nullptr, x, u, dtau) with dtau = 1
RepeatGeodesicStep ==
    /\ rp_call.op = "geodesic_step"
    /\ KeepResult(geodesic_step(rp_call.F, "none", rp_call.x, rp_call.u, ROne,
                                units_step(UnitsNow)))

RpNext ==
    \/ WriteFdH \/ WriteDtau
    \/ RepeatPrepareMetric \/ RepeatChristoffel \/ RepeatRiemannAt
    \/ RepeatEinsteinAt \/ RepeatGeodesicStep

(***************************************************************************)
(* physics/stress_energy.hpp                                               *)
(***************************************************************************)
\* std::exp takes no rational value except at 0, so a real that carries
\* kernel weights is kept exactly as a sum of c * exp(q) over distinct
\* rational q: the set of the pairs <<q, c>> with c # 0.  Two such sums are
\* the same real exactly when the sets are equal.
ExpZero == {}

ExpTerm(c, q) == IF c = RZero THEN {} ELSE {<<q, c>>}

ExpCoef(w, q) == IF \E t \in w : t[1] = q THEN (CHOOSE t \in w : t[1] = q)[2] ELSE RZero

ExpAdd(a, b) ==
    { t \in { <<q, RAdd(ExpCoef(a, q), ExpCoef(b, q))>> : q \in { t[1] : t \in a \cup b } } :
        t[2] # RZero }

ExpMul(c, w) == { t \in { <<u[1], RMul(c, u[2])>> : u \in w } : t[2] # RZero }

\* struct Event { vec4 x; vec4 u; real E{1}; real m{1}; }
Event(x, u, E, m) == [x |-> x, u |-> u, E |-> E, m |-> m]

\* struct TSParams { sigma{1.0}; eta{1e-2}; kappa{0.1}; c2{1.0}; }
TSParams(sigma, eta, kappa, c2) == [sigma |-> sigma, eta |-> eta, kappa |-> kappa, c2 |-> c2]

TSParams_default == TSParams(ROne, MkReal(1, 1, -2), MkReal(1, 1, -1), ROne)

\* ulim[mu] = sum_a g[mu][a] * u[a]; out[mu][nu] = ulim[mu] * ulim[nu]
lower_u_outer_mut(g, u) == Mat(LAMBDA mu, nu : RMul(u[mu], u[nu]))
lower_u_outer(g, u) ==
    LET ulim == Tab4(LAMBDA mu : Sum4(LAMBDA a : RMul(g[mu][a], u[a])))
    IN Mat(LAMBDA mu, nu : RMul(ulim[mu], ulim[nu]))

\* B = A; B[i][j] *= s
scaled(M, s) == Mat(LAMBDA i, j : RMul(M[i][j], s))

\* the same with s a kernel weight
scaled_by_weight(M, w) == Mat(LAMBDA i, j : ExpMul(M[i][j], w))

\* C[i][j] = A[i][j] + B[i][j]
add(M, N) == Mat(LAMBDA i, j : RAdd(M[i][j], N[i][j]))

\* the same on matrices that carry kernel weights
add_weighted(M, N) == Mat(LAMBDA i, j : ExpAdd(M[i][j], N[i][j]))

\* inv = 0.5 / (sigma * sigma); return exp(-r2 * inv)
kernel_exp(r2, sigma) == ExpTerm(ROne, RMul(RNeg(r2), RDiv(RHalf, RMul(sigma, sigma))))

\* the lambda d2: d = x - xi; y = gtilde * d; return d . y
d2_mut(gtilde, x, xi) ==
    LET d == Tab4(LAMBDA i : RSub(x[i], xi[i]))
    IN Sum4(LAMBDA i : RMul(d[i], d[i]))
d2(gtilde, x, xi) ==
    LET d == Tab4(LAMBDA i : RSub(x[i], xi[i]))
        y == Tab4(LAMBDA i : Sum4(LAMBDA j : RMul(gtilde[i][j], d[j])))
    IN Sum4(LAMBDA i : RMul(d[i], y[i]))

\* the body of the loop over the events: T = add(T, scaled(add(term1, term2), w))
stress_energy_event(T, g, gtilde, x, e, P) ==
    LET w == kernel_exp(d2(gtilde, x, e.x), P.sigma)
        umu_unu == lower_u_outer(g, e.u)
        term1 == scaled(umu_unu, e.E)
        term2 == scaled(g, RMul(RMul(P.eta, e.m), P.c2))
    IN Strict(w, Strict(add(term1, term2),
           add_weighted(T, scaled_by_weight(add(term1, term2), w))))

\* mat4 T{}; for (const auto& e : evs) ...
RECURSIVE stress_energy_loop(_, _, _, _, _, _)
stress_energy_loop(T, g, gtilde, x, evs, P) ==
    Strict(T, IF evs = <<>> THEN T
              ELSE stress_energy_loop(stress_energy_event(T, g, gtilde, x, Head(evs), P),
                                      g, gtilde, x, Tail(evs), P))

\* stress_energy_at(F, evs, x, P): the matrix returned and the points at which
\* F.g was called (the one call is sym4 g = F.g(x))
stress_energy_at(F, evs, x, P) ==
    LET g == FieldG(F, x)
        gtilde == pd_proxy_square(g)
    IN Strict(g, Strict(gtilde,
           [T |-> stress_energy_loop(Mat(LAMBDA i, j : ExpZero), g, gtilde, x, evs, P),
            calls |-> <<x>>]))

(***************************************************************************)
(* A caller of stress_energy_at                                            *)
(***************************************************************************)
MaxEvents == 2

\* fields that agree at one query point and differ at event positions
SeFields == {"minkowski", "bilinear", "cubic", "time_well"}

\* the fields agree at the first point and differ from one another at the second
SePoints == { NiOrigin, Vec(RInt(1), RInt(1), RZero, RZero) }

\* events at and away from the query points, at rest, moving and with zero energy
SeEvents ==
    { Event(NiOrigin, Vec(RInt(1), RZero, RZero, RZero), ROne, ROne),
      Event(Vec(RInt(1), RInt(1), RZero, RZero), Vec(RInt(1), RHalf, RZero, RZero), RInt(2), ROne),
      Event(Vec(RZero, RInt(1), RInt(2), RZero), Vec(RInt(1), RZero, RHalf, RZero), RZero, RInt(3)) }

RECURSIVE SeLists(_)
SeLists(n) ==
    IF n = 0 THEN {<<>>}
    ELSE SeLists(n - 1) \cup { Append(l, e) : l \in { k \in SeLists(n - 1) : Len(k) = n - 1 }, e \in SeEvents }

SeParams == { TSParams_default, TSParams(RInt(2), RZero, MkReal(1, 1, -1), ROne) }

SeOff ==
    /\ se_pc = "off"
    /\ se_F = "minkowski"
    /\ se_evs = <<>>
    /\ se_x = NiOrigin
    /\ se_P = TSParams_default
    /\ se_T = mat4_default
    /\ se_calls = <<>>

SeInit ==
    /\ se_pc = "start"
    /\ se_F \in SeFields
    /\ se_evs \in SeLists(MaxEvents)
    /\ se_x \in SePoints
    /\ se_P \in SeParams
    /\ se_T = mat4_default
    /\ se_calls = <<>>

CallStressEnergyAt ==
    /\ se_pc = "start"
    /\ se_pc' = "done"
    /\ se_T' = stress_energy_at(se_F, se_evs, se_x, se_P).T
    /\ se_calls' = se_calls \o stress_energy_at(se_F, se_evs, se_x, se_P).calls
    /\ UNCHANGED <<se_F, se_evs, se_x, se_P>>
    /\ UNCHANGED <<fd_h, notSe>>

SeNext == CallStressEnergyAt

(***************************************************************************)
(* A caller of linalg.hpp: det and inverse called again and again under    *)
(* the logger.                                                             *)
(***************************************************************************)
MaxTraced == 4

\* a regular matrix, one that needs no row swap, and one inverse and det give up on
ThMatrices == { identity, const_sheared, const_singular }

ThOff ==
    /\ th_pc = "off"
    /\ th_heavy = FALSE
    /\ th_L = Logger_default
    /\ th_calls = 0

ThInit ==
    /\ th_pc = "run"
    /\ th_heavy \in BOOLEAN
    /\ th_L \in { [Logger_default EXCEPT !.enabled = e, !.min_level = m] :
                    e \in BOOLEAN, m \in {Level.trace, Level.debug, Level.info} }
    /\ th_calls = 0

CallDetTraced ==
    /\ th_pc = "run"
    /\ th_calls < MaxTraced
    /\ \E m \in ThMatrices : th_L' = det_traced(m, th_L, th_heavy).L
    /\ th_calls' = th_calls + 1
    /\ UNCHANGED <<th_pc, th_heavy>>
    /\ UNCHANGED <<fd_h, notTh>>

CallInverseTraced ==
    /\ th_pc = "run"
    /\ th_calls < MaxTraced
    /\ \E m \in ThMatrices : th_L' = inverse_traced(m, mat4_default, eps_default, th_L, th_heavy).L
    /\ th_calls' = th_calls + 1
    /\ UNCHANGED <<th_pc, th_heavy>>
    /\ UNCHANGED <<fd_h, notTh>>

ThNext == CallDetTraced \/ CallInverseTraced

(***************************************************************************)
(* diagnostics/ppm.hpp: save_ppm, one pixel of the loop at a time          *)
(***************************************************************************)
MaxSide == 2

MaxOverlay == 5

RECURSIVE PmOverlays(_)
PmOverlays(n) ==
    IF n = 0 THEN {<<>>}
    ELSE PmOverlays(n - 1)
         \cup { Append(o, b) : o \in { k \in PmOverlays(n - 1) : Len(k) = n - 1 }, b \in {0, 1} }

PmOff ==
    /\ pm_pc = "off"
    /\ pm_nx = 0
    /\ pm_ny = 0
    /\ pm_overlay = <<>>
    /\ pm_i = 0
    /\ pm_j = 0
    /\ pm_reads = {}
    /\ pm_pix = <<>>

PmInit ==
    /\ pm_pc = "start"
    /\ pm_nx \in 1..MaxSide
    /\ pm_ny \in 1..MaxSide
    /\ pm_overlay \in PmOverlays(MaxOverlay)
    /\ pm_i = 0
    /\ pm_j = 0
    /\ pm_reads = {}
    /\ pm_pix = <<>>

\* f = std::fopen(path, "w"); if (!f) return false; then the header line
SavePpmOpen ==
    /\ pm_pc = "start"
    /\ pm_pc' \in {"pixels", "failed"}
    /\ UNCHANGED <<pm_nx, pm_ny, pm_overlay, pm_i, pm_j, pm_reads, pm_pix>>
    /\ UNCHANGED <<fd_h, notPm>>

\* the loop variables after the body: ++j, and ++i with j = 0 at the end of a row
PmAdvance ==
    /\ pm_j' = IF pm_j + 1 < pm_ny THEN pm_j + 1 ELSE 0
    /\ pm_i' = IF pm_j + 1 < pm_ny THEN pm_i ELSE pm_i + 1

\* the index overlay is read at
overlay_index(i, j, ny) == i * ny + j

\* if (!overlay.empty() && overlay[i*G.ny + j]) with the index inside the vector
SavePpmPixel ==
    /\ pm_pc = "pixels" /\ pm_i < pm_nx
    /\ pm_overlay = <<>> \/ overlay_index(pm_i, pm_j, pm_ny) < Len(pm_overlay)
    /\ pm_reads' = IF pm_overlay = <<>> THEN pm_reads
                   ELSE pm_reads \cup {overlay_index(pm_i, pm_j, pm_ny)}
    /\ pm_pix' = Append(pm_pix,
                    IF pm_overlay # <<>> /\ pm_overlay[overlay_index(pm_i, pm_j, pm_ny) + 1] # 0
                    THEN "black" ELSE "palette")
    /\ PmAdvance
    /\ UNCHANGED <<pm_pc, pm_nx, pm_ny, pm_overlay>>
    /\ UNCHANGED <<fd_h, notPm>>

\* the same statement with the index past the end of a non-empty vector:
\* operator[] is unchecked, the byte read is whatever lies there
SavePpmPixelPastEnd ==
    /\ pm_pc = "pixels" /\ pm_i < pm_nx
    /\ pm_overlay # <<>> /\ overlay_index(pm_i, pm_j, pm_ny) >= Len(pm_overlay)
    /\ pm_reads' = pm_reads \cup {overlay_index(pm_i, pm_j, pm_ny)}
    /\ \/ /\ \E byte \in {0, 1} :
                pm_pix' = Append(pm_pix, IF byte # 0 THEN "black" ELSE "palette")
          /\ PmAdvance
          /\ UNCHANGED pm_pc
       \/ /\ pm_pc' = "crashed"
          /\ UNCHANGED <<pm_i, pm_j, pm_pix>>
    /\ UNCHANGED <<pm_nx, pm_ny, pm_overlay>>
    /\ UNCHANGED <<fd_h, notPm>>

\* std::fclose(f); return true
SavePpmClose ==
    /\ pm_pc = "pixels" /\ pm_i = pm_nx
    /\ pm_pc' = "closed"
    /\ UNCHANGED <<pm_nx, pm_ny, pm_overlay, pm_i, pm_j, pm_reads, pm_pix>>
    /\ UNCHANGED <<fd_h, notPm>>

PmNext == SavePpmOpen \/ SavePpmPixel \/ SavePpmPixelPastEnd \/ SavePpmClose

(***************************************************************************)
(* diagnostics/overlay.hpp: mask_from_path_xy, one iteration of the loop   *)
(* of draw_segment at a time                                               *)
(***************************************************************************)
\* to_ij(x, y): j = round((x - G.x0) / G.dx), i = round((y - G.y0) / G.dy), on
\* integer coordinates with Grid2D's default origin 0 and spacing 1
to_ij(x, y) == [i |-> y, j |-> x]

\* if (i<0 || j<0 || i>=int(G.nx) || j>=int(G.ny)) return;
mark_rejected_mut(i, j, nx, ny) == i < 0 \/ j < 0 \/ i >= nx
mark_rejected(i, j, nx, ny) == i < 0 \/ j < 0 \/ i >= nx \/ j >= ny

\* the writes M[i*G.ny + j] = 255 of the two for loops around (i, j)
mark_writes(i, j, t, nx, ny) ==
    { [i |-> i + ti, j |-> j + tj, index |-> (i + ti) * ny + (j + tj)] :
        <<ti, tj>> \in { d \in (-t..t) \X (-t..t) : ~mark_rejected(i + d[1], j + d[2], nx, ny) } }

\* M after those writes; a write past the end lands outside the vector
mark_all(M, writes) ==
    [index \in DOMAIN M |-> IF \E w \in writes : w.index = index THEN 255 ELSE M[index]]

\* di, dj, si, sj of draw_segment(i0, j0, i1, j1)
draw_segment_setup(a, b) ==
    [i0 |-> a.i, j0 |-> a.j, i1 |-> b.i, j1 |-> b.j,
     di |-> IAbs(b.i - a.i), dj |-> IAbs(b.j - a.j),
     si |-> IF a.i < b.i THEN 1 ELSE -1, sj |-> IF a.j < b.j THEN 1 ELSE -1]

\* e2 = 2*err; if (e2 > -dj) { err -= dj; i += si; } if (e2 < di) { err += di; j += sj; }
draw_segment_step(seg, i, j, err) ==
    [i |-> IF 2 * err > -seg.dj THEN i + seg.si ELSE i,
     j |-> IF 2 * err < seg.di THEN j + seg.sj ELSE j,
     err |-> (IF 2 * err > -seg.dj THEN err - seg.dj ELSE err)
             + (IF 2 * err < seg.di THEN seg.di ELSE 0)]

MaxCell == 2

\* cells inside a grid of up to 2 x 2 and up to two cells outside it
OvCoordinates == (-2)..MaxCell

OvPoints == OvCoordinates \X OvCoordinates

\* paths of no, one and two points, and some of three
OvPaths ==
    {<<>>} \cup { <<a>> : a \in OvPoints } \cup { <<a, b>> : a \in OvPoints, b \in OvPoints }
    \cup { <<a, <<0, 0>>, b>> : a \in { <<-1, 1>>, <<2, 0>> }, b \in { <<1, 2>>, <<0, 0>>, <<-2, -1>> } }

OvSegDefault == draw_segment_setup(to_ij(0, 0), to_ij(0, 0))

OvOff ==
    /\ ov_pc = "off"
    /\ ov_nx = 0
    /\ ov_ny = 0
    /\ ov_thick = 1
    /\ ov_path = <<>>
    /\ ov_k = 1
    /\ ov_seg = OvSegDefault
    /\ ov_i = 0
    /\ ov_j = 0
    /\ ov_err = 0
    /\ ov_iter = 0
    /\ ov_seen = {}
    /\ ov_M = <<>>
    /\ ov_writes = {}

\* std::vector<uint8_t> M(G.nx * G.ny, 0); k = 1
OvInit ==
    /\ ov_pc = "path"
    /\ ov_nx \in 1..2
    /\ ov_ny \in 1..2
    /\ ov_thick \in {0, 1}
    /\ ov_path \in OvPaths
    /\ ov_k = 1
    /\ ov_seg = OvSegDefault
    /\ ov_i = 0
    /\ ov_j = 0
    /\ ov_err = 0
    /\ ov_iter = 0
    /\ ov_seen = {}
    /\ ov_M = [index \in 0..(ov_nx * ov_ny - 1) |-> 0]
    /\ ov_writes = {}

SetSegment(seg) ==
    /\ ov_seg' = seg
    /\ ov_i' = seg.i0
    /\ ov_j' = seg.j0
    /\ ov_err' = seg.di - seg.dj

\* for (k = 1; k < path.size(); ++k): to_ij of both ends, then draw_segment
\* up to the head of its loop
DrawSegmentEnter ==
    /\ ov_pc = "path" /\ ov_k < Len(ov_path)
    /\ SetSegment(draw_segment_setup(to_ij(ov_path[ov_k][1], ov_path[ov_k][2]),
                                     to_ij(ov_path[ov_k + 1][1], ov_path[ov_k + 1][2])))
    /\ ov_iter' = 0
    /\ ov_seen' = {}
    /\ ov_pc' = "loop"
    /\ UNCHANGED <<ov_nx, ov_ny, ov_thick, ov_path, ov_k, ov_M, ov_writes>>
    /\ UNCHANGED <<fd_h, notOv>>

\* the marks of one iteration
OvMark ==
    /\ ov_writes' = ov_writes \cup mark_writes(ov_i, ov_j, ov_thick, ov_nx, ov_ny)
    /\ ov_M' = mark_all(ov_M, mark_writes(ov_i, ov_j, ov_thick, ov_nx, ov_ny))
    /\ ov_seen' = ov_seen \cup {<<ov_i, ov_j>>}
    /\ ov_iter' = ov_iter + 1

\* one iteration that ends in the two steps
DrawSegmentStep ==
    /\ ov_pc = "loop"
    /\ ~(ov_i = ov_seg.i1 /\ ov_j = ov_seg.j1)
    /\ OvMark
    /\ ov_i' = draw_segment_step(ov_seg, ov_i, ov_j, ov_err).i
    /\ ov_j' = draw_segment_step(ov_seg, ov_i, ov_j, ov_err).j
    /\ ov_err' = draw_segment_step(ov_seg, ov_i, ov_j, ov_err).err
    /\ UNCHANGED <<ov_pc, ov_nx, ov_ny, ov_thick, ov_path, ov_k, ov_seg>>
    /\ UNCHANGED <<fd_h, notOv>>

\* the iteration that ends in break, and ++k
DrawSegmentBreak ==
    /\ ov_pc = "loop"
    /\ ov_i = ov_seg.i1 /\ ov_j = ov_seg.j1
    /\ OvMark
    /\ ov_k' = ov_k + 1
    /\ ov_pc' = "path"
    /\ UNCHANGED <<ov_nx, ov_ny, ov_thick, ov_path, ov_seg, ov_i, ov_j, ov_err>>
    /\ UNCHANGED <<fd_h, notOv>>

\* return M
MaskReturn ==
    /\ ov_pc = "path" /\ ov_k >= Len(ov_path)
    /\ ov_pc' = "done"
    /\ UNCHANGED <<ov_nx, ov_ny, ov_thick, ov_path, ov_k, ov_seg, ov_i, ov_j, ov_err, ov_iter,
                   ov_seen, ov_M, ov_writes>>
    /\ UNCHANGED <<fd_h, notOv>>

OvNext == DrawSegmentEnter \/ DrawSegmentStep \/ DrawSegmentBreak \/ MaskReturn

(***************************************************************************)
(* telemetry/logger.hpp, logger.cpp: the Logger singleton called from      *)
(* several threads, one statement group at a time.                         *)
(***************************************************************************)
Threads == {1, 2}

MaxCalls == 4

LgCall(name, lvl, flag, n) == [name |-> name, lvl |-> lvl, flag |-> flag, n |-> n]

LgNoCall == LgCall("none", 0, FALSE, 0)

\* Record rec: run_id and log_id
LgNoRecord == [run_id |-> 0, log_id |-> 0]

LgCalls ==
    { LgCall("log", lvl, FALSE, 0) : lvl \in {Level.trace, Level.error_} }
    \cup { LgCall(name, 0, FALSE, 0) : name \in {"start_run", "stop_run", "run_id", "next_log_id"} }
    \cup { LgCall(name, 0, b, 0) : name \in {"set_enabled"}, b \in BOOLEAN }
    \cup { LgCall("set_console_mirror", 0, FALSE, 0), LgCall("set_min_level", Level.info, FALSE, 0) }
    \cup { LgCall("set_flush_every", 0, FALSE, n) : n \in {0, 2} }

\* the first statement of each member function
LgEntry(name) ==
    CASE name = "log" -> "log_enabled"
      [] name = "start_run" -> "start_run_lock"
      [] name = "stop_run" -> "stop_run_lock"
      [] name = "set_console_mirror" -> "set_console_mirror_lock"
      [] name = "set_min_level" -> "set_min_level_lock"
      [] name = "set_flush_every" -> "set_flush_every_lock"
      [] name = "set_enabled" -> "set_enabled"
      [] name = "run_id" -> "run_id"
      [] name = "next_log_id" -> "next_log_id"

\* the statement after each std::scoped_lock lk(mtx_)
LgLocked(pc) ==
    CASE pc = "log_lock" -> "log_started"
      [] pc = "start_run_lock" -> "start_run_started"
      [] pc = "stop_run_lock" -> "stop_run_started"
      [] pc = "set_console_mirror_lock" -> "set_console_mirror"
      [] pc = "set_min_level_lock" -> "set_min_level"
      [] pc = "set_flush_every_lock" -> "set_flush_every"

LgLockPcs ==
    {"log_lock", "start_run_lock", "stop_run_lock", "set_console_mirror_lock",
     "set_min_level_lock", "set_flush_every_lock"}

\* std::scoped_lock: the constructor returns once no other thread holds mtx_
scoped_lock_free_mut(m) == TRUE
scoped_lock_free(m) == m = 0

\* the shared fields the next statement of a thread reads ("r") or writes ("w")
LgAccess(pc, started) ==
    CASE pc = "log_enabled" -> {<<"enabled_", "r">>}
      [] pc = "log_level" -> {<<"min_level_", "r">>}
      [] pc \in {"log_started", "start_run_started"} ->
            IF started THEN {<<"started_", "r">>}
            ELSE {<<"started_", "r">>, <<"run_id_", "w">>, <<"file_", "w">>, <<"started_", "w">>}
      [] pc = "stop_run_started" -> {<<"started_", "r">>}
      [] pc \in {"log_id", "start_run_id", "stop_run_id"} -> {<<"run_id_", "r">>}
      [] pc \in {"log_write", "start_run_write"} ->
            {<<"file_", "w">>, <<"flush_every_", "r">>, <<"console_mirror_", "r">>}
      [] pc = "stop_run_write" ->
            {<<"file_", "w">>, <<"flush_every_", "r">>, <<"console_mirror_", "r">>,
             <<"started_", "w">>}
      [] pc = "set_console_mirror" -> {<<"console_mirror_", "w">>}
      [] pc = "set_min_level" -> {<<"min_level_", "w">>}
      [] pc = "set_flush_every" -> {<<"flush_every_", "w">>}
      [] pc = "set_enabled" -> {<<"enabled_", "w">>}
      [] pc = "run_id" -> {<<"run_id_", "r">>}
      [] OTHER -> {}

LgOff ==
    /\ lg_pc = [t \in Threads |-> "off"]
    /\ lg_op = [t \in Threads |-> LgNoCall]
    /\ lg_rec = [t \in Threads |-> LgNoRecord]
    /\ lg_calls = 0 /\ lg_mtx = 0
    /\ lg_enabled = TRUE /\ lg_min_level = Level.trace /\ lg_console = TRUE
    /\ lg_started = FALSE /\ lg_run_id = 0 /\ lg_flush_every = 1
    /\ lg_counter = 0 /\ lg_file = <<>>

\* Logger::Logger(): the member initializers, enabled_ from RSLM_TRACE
LgInit ==
    /\ lg_pc = [t \in Threads |-> "idle"]
    /\ lg_op = [t \in Threads |-> LgNoCall]
    /\ lg_rec = [t \in Threads |-> LgNoRecord]
    /\ lg_calls = 0 /\ lg_mtx = 0
    /\ lg_enabled \in BOOLEAN /\ lg_min_level = Level.trace /\ lg_console = TRUE
    /\ lg_started = FALSE /\ lg_run_id = 0 /\ lg_flush_every = 1
    /\ lg_counter = 0 /\ lg_file = <<>>

\* the thread goes on to the statement pc
LgGoto(t, pc) ==
    /\ lg_pc' = [lg_pc EXCEPT ![t] = pc]
    /\ UNCHANGED <<lg_op, lg_rec, lg_calls>>

\* the member function returns; a scoped_lock the thread holds is released
LgReturn(t) ==
    /\ lg_pc' = [lg_pc EXCEPT ![t] = "idle"]
    /\ lg_op' = [lg_op EXCEPT ![t] = LgNoCall]
    /\ lg_rec' = [lg_rec EXCEPT ![t] = LgNoRecord]
    /\ lg_mtx' = IF lg_mtx = t THEN 0 ELSE lg_mtx
    /\ UNCHANGED lg_calls

\* a thread calls a member function
LgCallMember(t) ==
    /\ lg_pc[t] = "idle" /\ lg_calls < MaxCalls
    /\ \E c \in LgCalls :
        /\ lg_op' = [lg_op EXCEPT ![t] = c]
        /\ lg_pc' = [lg_pc EXCEPT ![t] = LgEntry(c.name)]
    /\ lg_calls' = lg_calls + 1
    /\ UNCHANGED <<lg_rec, lg_mtx, lg_enabled, lg_min_level, lg_console, lg_started,
                   lg_run_id, lg_flush_every, lg_counter, lg_file>>
    /\ UNCHANGED <<fd_h, notLg>>

\* std::scoped_lock lk(mtx_)
LgLock(t) ==
    /\ lg_pc[t] \in LgLockPcs
    /\ scoped_lock_free(lg_mtx)
    /\ lg_mtx' = t
    /\ LgGoto(t, LgLocked(lg_pc[t]))
    /\ UNCHANGED <<lg_enabled, lg_min_level, lg_console, lg_started,
                   lg_run_id, lg_flush_every, lg_counter, lg_file>>
    /\ UNCHANGED <<fd_h, notLg>>

\* log: if (!enabled_) return;
LogEnabled(t) ==
    /\ lg_pc[t] = "log_enabled"
    /\ IF lg_enabled THEN LgGoto(t, "log_level") /\ UNCHANGED lg_mtx ELSE LgReturn(t)
    /\ UNCHANGED <<lg_enabled, lg_min_level, lg_console, lg_started,
                   lg_run_id, lg_flush_every, lg_counter, lg_file>>
    /\ UNCHANGED <<fd_h, notLg>>

\* log: if (lvl < min_level_) return;
LogLevel(t) ==
    /\ lg_pc[t] = "log_level"
    /\ IF lg_op[t].lvl < lg_min_level THEN LgReturn(t)
       ELSE LgGoto(t, "log_lock") /\ UNCHANGED lg_mtx
    /\ UNCHANGED <<lg_enabled, lg_min_level, lg_console, lg_started,
                   lg_run_id, lg_flush_every, lg_counter, lg_file>>
    /\ UNCHANGED <<fd_h, notLg>>

\* gen_run_id_(): an id no earlier run had
gen_run_id_(prev) == prev + 1

\* run_id_ = gen_run_id_(); ensure_log_dir_open_(); started_ = true;
LgOpenRun ==
    /\ lg_run_id' = gen_run_id_(lg_run_id)
    /\ lg_started' = TRUE

\* log: if (!started_) { ... }
LogStarted(t) ==
    /\ lg_pc[t] = "log_started"
    /\ IF lg_started THEN UNCHANGED <<lg_run_id, lg_started>> ELSE LgOpenRun
    /\ LgGoto(t, "log_id")
    /\ UNCHANGED <<lg_mtx, lg_enabled, lg_min_level, lg_console,
                   lg_flush_every, lg_counter, lg_file>>
    /\ UNCHANGED <<fd_h, notLg>>

\* start_run: if (started_) return; and the opening of the run
StartRunStarted(t) ==
    /\ lg_pc[t] = "start_run_started"
    /\ IF lg_started
       THEN LgReturn(t) /\ UNCHANGED <<lg_run_id, lg_started>>
       ELSE LgOpenRun /\ LgGoto(t, "start_run_id") /\ UNCHANGED lg_mtx
    /\ UNCHANGED <<lg_enabled, lg_min_level, lg_console,
                   lg_flush_every, lg_counter, lg_file>>
    /\ UNCHANGED <<fd_h, notLg>>

\* stop_run: if (!started_) return;
StopRunStarted(t) ==
    /\ lg_pc[t] = "stop_run_started"
    /\ IF lg_started THEN LgGoto(t, "stop_run_id") /\ UNCHANGED lg_mtx ELSE LgReturn(t)
    /\ UNCHANGED <<lg_enabled, lg_min_level, lg_console, lg_started,
                   lg_run_id, lg_flush_every, lg_counter, lg_file>>
    /\ UNCHANGED <<fd_h, notLg>>

\* uint64_t next_log_id() { return ++log_counter_; }
next_log_id(counter) == counter + 1

\* rec.run_id = run_id_; rec.log_id = next_log_id();
LgTakeId(t, pc) ==
    /\ lg_rec' = [lg_rec EXCEPT ![t] = [run_id |-> lg_run_id, log_id |-> next_log_id(lg_counter)]]
    /\ lg_counter' = next_log_id(lg_counter)
    /\ lg_pc' = [lg_pc EXCEPT ![t] = pc]
    /\ UNCHANGED <<lg_op, lg_calls>>
    /\ UNCHANGED <<lg_mtx, lg_enabled, lg_min_level, lg_console, lg_started,
                   lg_run_id, lg_flush_every, lg_file>>
    /\ UNCHANGED <<fd_h, notLg>>

LogId(t) == lg_pc[t] = "log_id" /\ LgTakeId(t, "log_write")

StartRunId(t) == lg_pc[t] = "start_run_id" /\ LgTakeId(t, "start_run_write")

StopRunId(t) == lg_pc[t] = "stop_run_id" /\ LgTakeId(t, "stop_run_write")

\* write_text_line_(rec)
write_text_line_(file, rec, t) == Append(file, [run_id |-> rec.run_id, log_id |-> rec.log_id, thread |-> t])

\* log, start_run: write_text_line_(rec); if (console_mirror_) ...; return
LgWriteLine(t) ==
    /\ lg_file' = write_text_line_(lg_file, lg_rec[t], t)
    /\ LgReturn(t)
    /\ UNCHANGED <<lg_enabled, lg_min_level, lg_console, lg_started,
                   lg_run_id, lg_flush_every, lg_counter>>
    /\ UNCHANGED <<fd_h, notLg>>

LogWrite(t) == lg_pc[t] = "log_write" /\ LgWriteLine(t)

StartRunWrite(t) == lg_pc[t] = "start_run_write" /\ LgWriteLine(t)

\* stop_run: write_text_line_(rec); ...; file_.close(); started_ = false;
StopRunWrite(t) ==
    /\ lg_pc[t] = "stop_run_write"
    /\ lg_file' = write_text_line_(lg_file, lg_rec[t], t)
    /\ lg_started' = FALSE
    /\ LgReturn(t)
    /\ UNCHANGED <<lg_enabled, lg_min_level, lg_console,
                   lg_run_id, lg_flush_every, lg_counter>>
    /\ UNCHANGED <<fd_h, notLg>>

\* console_mirror_ = enabled;
SetConsoleMirror(t) ==
    /\ lg_pc[t] = "set_console_mirror"
    /\ lg_console' = lg_op[t].flag
    /\ LgReturn(t)
    /\ UNCHANGED <<lg_enabled, lg_min_level, lg_started,
                   lg_run_id, lg_flush_every, lg_counter, lg_file>>
    /\ UNCHANGED <<fd_h, notLg>>

\* min_level_ = lvl;
SetMinLevel(t) ==
    /\ lg_pc[t] = "set_min_level"
    /\ lg_min_level' = lg_op[t].lvl
    /\ LgReturn(t)
    /\ UNCHANGED <<lg_enabled, lg_console, lg_started,
                   lg_run_id, lg_flush_every, lg_counter, lg_file>>
    /\ UNCHANGED <<fd_h, notLg>>

\* flush_every_ = (n == 0 ? 1 : n);
SetFlushEvery(t) ==
    /\ lg_pc[t] = "set_flush_every"
    /\ lg_flush_every' = IF lg_op[t].n = 0 THEN 1 ELSE lg_op[t].n
    /\ LgReturn(t)
    /\ UNCHANGED <<lg_enabled, lg_min_level, lg_console, lg_started,
                   lg_run_id, lg_counter, lg_file>>
    /\ UNCHANGED <<fd_h, notLg>>

\* void set_enabled(bool e) { enabled_ = e; }
SetEnabled(t) ==
    /\ lg_pc[t] = "set_enabled"
    /\ lg_enabled' = lg_op[t].flag
    /\ LgReturn(t)
    /\ UNCHANGED <<lg_min_level, lg_console, lg_started,
                   lg_run_id, lg_flush_every, lg_counter, lg_file>>
    /\ UNCHANGED <<fd_h, notLg>>

\* std::string run_id() const { return run_id_; }
RunId(t) ==
    /\ lg_pc[t] = "run_id"
    /\ LgReturn(t)
    /\ UNCHANGED <<lg_enabled, lg_min_level, lg_console, lg_started,
                   lg_run_id, lg_flush_every, lg_counter, lg_file>>
    /\ UNCHANGED <<fd_h, notLg>>

\* a direct call of next_log_id()
NextLogId(t) ==
    /\ lg_pc[t] = "next_log_id"
    /\ lg_counter' = next_log_id(lg_counter)
    /\ LgReturn(t)
    /\ UNCHANGED <<lg_enabled, lg_min_level, lg_console, lg_started,
                   lg_run_id, lg_flush_every, lg_file>>
    /\ UNCHANGED <<fd_h, notLg>>

LgNext ==
    \E t \in Threads :
        \/ LgCallMember(t) \/ LgLock(t)
        \/ LogEnabled(t) \/ LogLevel(t) \/ LogStarted(t) \/ LogId(t) \/ LogWrite(t)
        \/ StartRunStarted(t) \/ StartRunId(t) \/ StartRunWrite(t)
        \/ StopRunStarted(t) \/ StopRunId(t) \/ StopRunWrite(t)
        \/ SetConsoleMirror(t) \/ SetMinLevel(t) \/ SetFlushEvery(t)
        \/ SetEnabled(t) \/ RunId(t) \/ NextLogId(t)

(***************************************************************************)
(* telemetry/logger.cpp: start_run, stop_run and log called one after the  *)
(* other on an enabled logger with the default min_level_, each call from  *)
(* its lock to its return.                                                 *)
(***************************************************************************)
MaxRunCalls == 5

\* forced_run_id: std::nullopt (0) or a string the caller chose
RnForced == {0, 100}

\* the fields of the logger before a call, and the call
RnSnapshot(op) ==
    [op |-> op, started |-> rn_started, run_id |-> rn_run_id, open |-> rn_open,
     counter |-> rn_counter, lines |-> rn_lines, serial |-> rn_serial]

RnOff ==
    /\ rn_pc = "off"
    /\ rn_started = FALSE /\ rn_run_id = 0 /\ rn_open = FALSE
    /\ rn_counter = 0 /\ rn_gen = 0 /\ rn_lines = <<>> /\ rn_serial = 0
    /\ rn_prev = [op |-> "none"]
    /\ rn_calls = 0

\* the member initialisers of Logger
RnInit ==
    /\ rn_pc = "run"
    /\ rn_started = FALSE /\ rn_run_id = 0 /\ rn_open = FALSE
    /\ rn_counter = 0 /\ rn_gen = 0 /\ rn_lines = <<>> /\ rn_serial = 0
    /\ rn_prev = [op |-> "none"]
    /\ rn_calls = 0

\* a call is made: its snapshot is kept
RnCalled(op) ==
    /\ rn_pc = "run" /\ rn_calls < MaxRunCalls
    /\ rn_calls' = rn_calls + 1
    /\ rn_prev' = RnSnapshot(op)
    /\ UNCHANGED rn_pc
    /\ UNCHANGED <<fd_h, notRn>>

\* the call returns before it touched anything
RnReturnEarly ==
    UNCHANGED <<rn_started, rn_run_id, rn_open, rn_counter, rn_gen, rn_lines, rn_serial>>

\* run_id_ = id; ensure_log_dir_open_(); started_ = true;
RnOpen(id) ==
    /\ rn_run_id' = id
    /\ rn_open' = TRUE
    /\ rn_started' = TRUE
    /\ rn_serial' = rn_serial + 1

\* rec.run_id = run_id_; rec.log_id = next_log_id(); rec.name = name;
\* write_text_line_(rec): the line, with started_ as it is when the line is
\* written and the run the line falls in
RnWrite(name) ==
    /\ rn_counter' = next_log_id(rn_counter)
    /\ rn_lines' = Append(rn_lines,
                      [run_id |-> rn_run_id', log_id |-> next_log_id(rn_counter), name |-> name,
                       started |-> rn_started', serial |-> rn_serial'])

\* start_run: if (started_) return;
start_run_returns_mut(started) == FALSE
start_run_returns(started) == started

\* start_run(forced_run_id)
StartRun ==
    /\ RnCalled("start_run")
    /\ \E forced \in RnForced :
        IF start_run_returns(rn_started) THEN RnReturnEarly
        ELSE /\ RnOpen(IF forced # 0 THEN forced ELSE gen_run_id_(rn_gen))
             /\ rn_gen' = IF forced # 0 THEN rn_gen ELSE gen_run_id_(rn_gen)
             /\ RnWrite("run_start")

\* stop_run(): if (!started_) return; the record; file_.close(); started_ = false;
StopRun ==
    /\ RnCalled("stop_run")
    /\ IF ~rn_started THEN RnReturnEarly
       ELSE /\ rn_counter' = next_log_id(rn_counter)
            /\ rn_lines' = Append(rn_lines,
                              [run_id |-> rn_run_id, log_id |-> next_log_id(rn_counter),
                               name |-> "run_stop", started |-> rn_started,
                               serial |-> rn_serial])
            /\ rn_open' = FALSE
            /\ rn_started' = FALSE
            /\ UNCHANGED <<rn_run_id, rn_gen, rn_serial>>

\* log(lvl, loc, scope, name, value_str) with enabled_ true and lvl not
\* below min_level_: if (!started_) { ... }; the record
Log ==
    /\ RnCalled("log")
    /\ IF rn_started
       THEN UNCHANGED <<rn_run_id, rn_open, rn_started, rn_serial, rn_gen>>
       ELSE RnOpen(gen_run_id_(rn_gen)) /\ rn_gen' = gen_run_id_(rn_gen)
    /\ RnWrite("value")

RnNext == StartRun \/ StopRun \/ Log

(***************************************************************************)
(* The caller of integrators.hpp: a worldline (x, u) advanced by repeated  *)
(* geodesic_step calls with a fixed field, potential and step.             *)
(***************************************************************************)
MaxSteps == 3

\* real dtau = 0.5
dtau_default == RHalf

WlFields == {"minkowski", "const_slow", "bilinear"}
WlPotentials == {"none", "zero", "radial", "ramp"}
WlSteps == {dtau_default, ROne}
WlPositions ==
    { Vec(RZero, RZero, RZero, RZero), Vec(RZero, RInt(1), RZero, RZero) }

\* velocities: on the unit shell of eta, timelike off the shell, null, spacelike
WlVelocities ==
    { Vec(RInt(1), RZero, RZero, RZero), Vec(RFrac(5, 4), RFrac(3, 4), RZero, RZero),
      Vec(RInt(2), RZero, RZero, RZero), Vec(RInt(1), RInt(1), RZero, RZero),
      Vec(RZero, RInt(1), RZero, RZero), Vec(RFrac(3, 4), RFrac(5, 4), RZero, RZero) }

\* the norm of v in g is not timelike or has a rational root
WlExactNorm(g, v) == renormalize_skip(qform(g, v)) \/ ~IsNaN(RSqrt(RNeg(qform(g, v))))

\* The worldlines stepped: in a constant field without force every velocity
\* whose norm has a rational root; in the point-dependent field and under the
\* ramp the velocity is along the time axis; under the radial potential it
\* is spacelike, in a constant field.
WlPotentialsFor(F) == IF F \in ConstantFields THEN WlPotentials ELSE {"none", "zero"}

WlVelocitiesFor(F, P, x) ==
    IF P = "radial" THEN { v \in WlVelocities : v[0] = RZero }
    ELSE IF P = "ramp" \/ F \notin ConstantFields
    THEN { v \in WlVelocities : v[1] = RZero }
    ELSE { v \in WlVelocities : WlExactNorm(FieldG(F, x), v) }

\* under the radial potential the step is 1, which keeps the orbit on a few points
WlStepsFor(P) == IF P = "radial" THEN {ROne} ELSE WlSteps

\* units::C().fd_h is the default where a step of 1e-4 keeps the numbers small
WlUnitsFor(F, P) ==
    IF F \in ConstantFields /\ P \in {"none", "zero", "ramp"} THEN {fd_h_default}
    ELSE GeoSteps

last_default ==
    [x_old |-> Vec(RZero, RZero, RZero, RZero), a0 |-> Vec(RZero, RZero, RZero, RZero),
     uh |-> Vec(RZero, RZero, RZero, RZero), a1 |-> Vec(RZero, RZero, RZero, RZero),
     u_new |-> Vec(RZero, RZero, RZero, RZero), q |-> RZero]

WlOff ==
    /\ wl_pc = "off"
    /\ wl_field = "minkowski"
    /\ wl_pot = "none"
    /\ wl_dtau = dtau_default
    /\ wx = Vec(RZero, RZero, RZero, RZero)
    /\ wu = Vec(RInt(1), RZero, RZero, RZero)
    /\ wx0 = wx
    /\ wu0 = wu
    /\ steps = 0
    /\ last = last_default

WlInit ==
    /\ wl_pc = "run"
    /\ wl_field \in WlFields
    /\ wl_pot \in WlPotentialsFor(wl_field)
    /\ wl_dtau \in WlStepsFor(wl_pot)
    /\ wx \in WlPositions
    /\ wu \in WlVelocitiesFor(wl_field, wl_pot, wx)
    /\ fd_h \in WlUnitsFor(wl_field, wl_pot)
    /\ wx0 = wx
    /\ wu0 = wu
    /\ steps = 0
    /\ last = last_default

SetWorldline(r) ==
    /\ wx' = r.x
    /\ wu' = r.u
    /\ last' = [x_old |-> r.x_old, a0 |-> r.a0, uh |-> r.uh, a1 |-> r.a1,
                 u_new |-> r.u_new, q |-> r.q]

CallGeodesicStep ==
    /\ wl_pc = "run"
    /\ steps < MaxSteps
    /\ SetWorldline(geodesic_step(wl_field, wl_pot, wx, wu, wl_dtau, fd_h))
    /\ steps' = steps + 1
    /\ UNCHANGED <<wl_pc, wl_field, wl_pot, wl_dtau, wx0, wu0>>
    /\ UNCHANGED <<fd_h, notWl>>

WlNext == CallGeodesicStep

(***************************************************************************)
(* The caller of integrators.hpp: the same worldline stepped by            *)
(* rk4_geodesic and by geodesic_step.                                      *)
(***************************************************************************)
RkOff ==
    /\ rk_pc = "off"
    /\ rk_F = "minkowski"
    /\ rk_P = "none"
    /\ rk_dtau = dtau_default
    /\ rk_x = Vec(RZero, RZero, RZero, RZero)
    /\ rk_u = Vec(RInt(1), RZero, RZero, RZero)
    /\ rk_n = 0
    /\ rk_gx = rk_x
    /\ rk_gu = rk_u
    /\ rk_gn = 0

RkInit ==
    /\ rk_pc = "run"
    /\ rk_F \in WlFields
    /\ rk_P \in WlPotentialsFor(rk_F)
    /\ rk_dtau \in WlStepsFor(rk_P)
    /\ rk_x \in WlPositions
    /\ rk_u \in WlVelocitiesFor(rk_F, rk_P, rk_x)
    /\ fd_h \in WlUnitsFor(rk_F, rk_P)
    /\ rk_n = 0
    /\ rk_gx = rk_x
    /\ rk_gu = rk_u
    /\ rk_gn = 0

SetRk4(r) == rk_x' = r.x /\ rk_u' = r.u

SetBeside(r) == rk_gx' = r.x /\ rk_gu' = r.u

CallRk4Geodesic ==
    /\ rk_pc = "run"
    /\ rk_n < MaxSteps
    /\ SetRk4(rk4_geodesic(rk_F, rk_x, rk_u, rk_dtau, rk_P, fd_h))
    /\ rk_n' = rk_n + 1
    /\ UNCHANGED <<rk_pc, rk_F, rk_P, rk_dtau, rk_gx, rk_gu, rk_gn>>
    /\ UNCHANGED <<fd_h, notRk>>

CallGeodesicStepBeside ==
    /\ rk_pc = "run"
    /\ rk_gn < MaxSteps
    /\ SetBeside(geodesic_step(rk_F, rk_P, rk_gx, rk_gu, rk_dtau, fd_h))
    /\ rk_gn' = rk_gn + 1
    /\ UNCHANGED <<rk_pc, rk_F, rk_P, rk_dtau, rk_x, rk_u, rk_n>>
    /\ UNCHANGED <<fd_h, notRk>>

RkNext == CallRk4Geodesic \/ CallGeodesicStepBeside

(***************************************************************************)
(* The caller of integrators.hpp: one call of geodesic_step.               *)
(***************************************************************************)
GsIn(F, P, x, u, dtau) == [F |-> F, P |-> P, x |-> x, u |-> u, dtau |-> dtau]

\* the worldlines of WlInit; along the axis on which the cubic field varies
\* and up the time axis of the field whose g00 varies with time
GsInputs ==
    { GsIn(F, P, x, u, dtau) :
        F \in WlFields, P \in WlPotentials, x \in WlPositions, u \in WlVelocities,
        dtau \in WlSteps }
    \cup { GsIn("cubic", "none", NiOrigin, u, ROne) :
            u \in {Vec(RInt(1), RZero, RZero, RZero), Vec(RZero, RZero, RInt(1), RZero)} }
    \cup { GsIn("time_well", "none", NiOrigin, Vec(RInt(1), RZero, RZero, RZero), dtau) :
            dtau \in WlSteps }

GsAdmitted(in) ==
    IF in.F \in WlFields
    THEN /\ in.P \in WlPotentialsFor(in.F)
         /\ in.dtau \in WlStepsFor(in.P)
         /\ in.u \in WlVelocitiesFor(in.F, in.P, in.x)
    ELSE TRUE

GsUnitsFor(in) ==
    IF in.F \in WlFields THEN WlUnitsFor(in.F, in.P) ELSE RpSteps(in)

GsOff ==
    /\ gs_pc = "off"
    /\ gs_in = GsIn("minkowski", "none", NiOrigin, NiOrigin, ROne)
    /\ gs_out = RZero

GsInit ==
    /\ gs_pc = "ready"
    /\ gs_in \in { in \in GsInputs : GsAdmitted(in) }
    /\ fd_h \in GsUnitsFor(gs_in)
    /\ gs_out = RZero

\* steps that start where the metric has no inverse: a field that is
\* singular everywhere, under every potential, and a point-dependent field
\* at the point where its g11 vanishes; the flat field beside them
GsSingularInputs ==
    { in \in { GsIn(F, P, x, u, dtau) :
                F \in {"minkowski", "const_singular"}, P \in WlPotentials, x \in WlPositions,
                u \in WlVelocities, dtau \in WlSteps } :
        GsAdmitted(in) /\ WlExactNorm(FieldG(in.F, in.x), in.u) }
    \cup { GsIn("bilinear", P, Vec(RInt(1), RInt(-1), RZero, RZero),
                 Vec(RInt(1), RZero, RZero, RZero), dtau) :
             P \in {"none", "ramp"}, dtau \in WlSteps }

GsSingularInit ==
    /\ gs_pc = "ready"
    /\ gs_in \in GsSingularInputs
    /\ fd_h \in GeoSteps
    /\ gs_out = RZero

\* geodesic_step(F, P, x, u, dtau)
CallGeodesicStepOnce ==
    /\ gs_pc = "ready"
    /\ gs_out' = geodesic_step(gs_in.F, gs_in.P, gs_in.x, gs_in.u, gs_in.dtau, fd_h)
    /\ gs_pc' = "done"
    /\ UNCHANGED gs_in
    /\ UNCHANGED <<fd_h, notGs>>

GsNext == CallGeodesicStepOnce

UnitsDefault == fd_h = fd_h_default

\* one caller runs at a time; the variables of the others keep their defaults
InitLinalg == LinInit /\ UnitsDefault /\ GeoOff /\ SigOff /\ WlOff /\ JacOff /\ TetOff /\ PdOff /\ TdOff /\ NiOff /\ RpOff /\ LgOff /\ GsOff /\ PjOff /\ DtOff /\ SeOff /\ RkOff /\ ThOff /\ PmOff /\ OvOff /\ RnOff
InitGeometry == GeoInit /\ LinOff /\ SigOff /\ WlOff /\ JacOff /\ TetOff /\ PdOff /\ TdOff /\ NiOff /\ RpOff /\ LgOff /\ GsOff /\ PjOff /\ DtOff /\ SeOff /\ RkOff /\ ThOff /\ PmOff /\ OvOff /\ RnOff
InitSignature == SigInit /\ UnitsDefault /\ LinOff /\ GeoOff /\ WlOff /\ JacOff /\ TetOff /\ PdOff /\ TdOff /\ NiOff /\ RpOff /\ LgOff /\ GsOff /\ PjOff /\ DtOff /\ SeOff /\ RkOff /\ ThOff /\ PmOff /\ OvOff /\ RnOff
InitGeodesic == WlInit /\ LinOff /\ GeoOff /\ SigOff /\ JacOff /\ TetOff /\ PdOff /\ TdOff /\ NiOff /\ RpOff /\ LgOff /\ GsOff /\ PjOff /\ DtOff /\ SeOff /\ RkOff /\ ThOff /\ PmOff /\ OvOff /\ RnOff
InitJacobi == JacInit /\ UnitsDefault /\ LinOff /\ GeoOff /\ SigOff /\ WlOff /\ TetOff /\ PdOff /\ TdOff /\ NiOff /\ RpOff /\ LgOff /\ GsOff /\ PjOff /\ DtOff /\ SeOff /\ RkOff /\ ThOff /\ PmOff /\ OvOff /\ RnOff

InitTetrad == TetInit /\ UnitsDefault /\ LinOff /\ GeoOff /\ SigOff /\ WlOff /\ JacOff /\ PdOff /\ TdOff /\ NiOff /\ RpOff /\ LgOff /\ GsOff /\ PjOff /\ DtOff /\ SeOff /\ RkOff /\ ThOff /\ PmOff /\ OvOff /\ RnOff

InitPdProxy == PdInit /\ UnitsDefault /\ LinOff /\ GeoOff /\ SigOff /\ WlOff /\ JacOff /\ TetOff /\ TdOff /\ NiOff /\ RpOff /\ LgOff /\ GsOff /\ PjOff /\ DtOff /\ SeOff /\ RkOff /\ ThOff /\ PmOff /\ OvOff /\ RnOff

InitTimeDilation == TdInit /\ UnitsDefault /\ LinOff /\ GeoOff /\ SigOff /\ WlOff /\ JacOff /\ TetOff /\ PdOff /\ NiOff /\ RpOff /\ LgOff /\ GsOff /\ PjOff /\ DtOff /\ SeOff /\ RkOff /\ ThOff /\ PmOff /\ OvOff /\ RnOff

InitTraced == NiInit /\ UnitsDefault /\ LinOff /\ GeoOff /\ SigOff /\ WlOff /\ JacOff /\ TetOff /\ PdOff /\ TdOff /\ RpOff /\ LgOff /\ GsOff /\ PjOff /\ DtOff /\ SeOff /\ RkOff /\ ThOff /\ PmOff /\ OvOff /\ RnOff

InitRepeat == RpInit /\ LinOff /\ GeoOff /\ SigOff /\ WlOff /\ JacOff /\ TetOff /\ PdOff /\ TdOff /\ NiOff /\ LgOff /\ GsOff /\ PjOff /\ DtOff /\ SeOff /\ RkOff /\ ThOff /\ PmOff /\ OvOff /\ RnOff

InitLogger == LgInit /\ UnitsDefault /\ LinOff /\ GeoOff /\ SigOff /\ WlOff /\ JacOff /\ TetOff /\ PdOff /\ TdOff /\ NiOff /\ RpOff /\ GsOff /\ PjOff /\ DtOff /\ SeOff /\ RkOff /\ ThOff /\ PmOff /\ OvOff /\ RnOff

InitStep == GsInit /\ LinOff /\ GeoOff /\ SigOff /\ WlOff /\ JacOff /\ TetOff /\ PdOff /\ TdOff /\ NiOff /\ RpOff /\ LgOff /\ PjOff /\ DtOff /\ SeOff /\ RkOff /\ ThOff /\ PmOff /\ OvOff /\ RnOff

InitDiagonal == PjInit /\ UnitsDefault /\ LinOff /\ GeoOff /\ SigOff /\ WlOff /\ JacOff /\ TetOff /\ PdOff /\ TdOff /\ NiOff /\ RpOff /\ LgOff /\ GsOff /\ DtOff /\ SeOff /\ RkOff /\ ThOff /\ PmOff /\ OvOff /\ RnOff

InitDeterminant == DtInit /\ UnitsDefault /\ LinOff /\ GeoOff /\ SigOff /\ WlOff /\ JacOff /\ TetOff /\ PdOff /\ TdOff /\ NiOff /\ RpOff /\ LgOff /\ GsOff /\ PjOff /\ SeOff /\ RkOff /\ ThOff /\ PmOff /\ OvOff /\ RnOff

InitStress == SeInit /\ UnitsDefault /\ LinOff /\ GeoOff /\ SigOff /\ WlOff /\ JacOff /\ TetOff /\ PdOff /\ TdOff /\ NiOff /\ RpOff /\ LgOff /\ GsOff /\ PjOff /\ DtOff /\ RkOff /\ ThOff /\ PmOff /\ OvOff /\ RnOff

InitRk4 == RkInit /\ LinOff /\ GeoOff /\ SigOff /\ WlOff /\ JacOff /\ TetOff /\ PdOff /\ TdOff /\ NiOff /\ RpOff /\ LgOff /\ GsOff /\ PjOff /\ DtOff /\ SeOff /\ ThOff /\ PmOff /\ OvOff /\ RnOff

InitThrottle == ThInit /\ UnitsDefault /\ LinOff /\ GeoOff /\ SigOff /\ WlOff /\ JacOff /\ TetOff /\ PdOff /\ TdOff /\ NiOff /\ RpOff /\ LgOff /\ GsOff /\ PjOff /\ DtOff /\ SeOff /\ RkOff /\ PmOff /\ OvOff /\ RnOff

InitPpm == PmInit /\ UnitsDefault /\ LinOff /\ GeoOff /\ SigOff /\ WlOff /\ JacOff /\ TetOff /\ PdOff /\ TdOff /\ NiOff /\ RpOff /\ LgOff /\ GsOff /\ PjOff /\ DtOff /\ SeOff /\ RkOff /\ ThOff /\ OvOff /\ RnOff

InitSingular == GsSingularInit /\ LinOff /\ GeoOff /\ SigOff /\ WlOff /\ JacOff /\ TetOff /\ PdOff /\ TdOff /\ NiOff /\ RpOff /\ LgOff /\ PjOff /\ DtOff /\ SeOff /\ RkOff /\ ThOff /\ PmOff /\ OvOff /\ RnOff

InitOverlay == OvInit /\ UnitsDefault /\ LinOff /\ GeoOff /\ SigOff /\ WlOff /\ JacOff /\ TetOff /\ PdOff /\ TdOff /\ NiOff /\ RpOff /\ LgOff /\ GsOff /\ PjOff /\ DtOff /\ SeOff /\ RkOff /\ ThOff /\ PmOff /\ RnOff

InitRuns == RnInit /\ UnitsDefault /\ LinOff /\ GeoOff /\ SigOff /\ WlOff /\ JacOff /\ TetOff /\ PdOff /\ TdOff /\ NiOff /\ RpOff /\ LgOff /\ GsOff /\ PjOff /\ DtOff /\ SeOff /\ RkOff /\ ThOff /\ PmOff /\ OvOff

SpecLinalg == InitLinalg /\ [][LinNext]_vars

SpecGeometry == InitGeometry /\ [][GeoNext]_vars

SpecSignature == InitSignature /\ [][SigNext]_vars

SpecGeodesic == InitGeodesic /\ [][WlNext]_vars

\* the call has not returned yet
JacRunning == jac_pc \in {"loop", "copy"}

\* the loop is sequential code: while the call has not returned, its next
\* statement is executed.  This is WF_vars(JacNext) with the enabling
\* condition of JacNext written out as the state predicate JacRunning.
JacFair == []<>(~JacRunning) \/ []<><<JacNext>>_vars

SpecJacobi == InitJacobi /\ [][JacNext]_vars /\ JacFair

SpecTetrad == InitTetrad /\ [][TetNext]_vars

SpecPdProxy == InitPdProxy /\ [][PdNext]_vars

SpecTimeDilation == InitTimeDilation /\ [][TdNext]_vars

SpecTraced == InitTraced /\ [][NiNext]_vars

SpecRepeat == InitRepeat /\ [][RpNext]_vars

SpecLogger == InitLogger /\ [][LgNext]_vars

SpecStep == InitStep /\ [][GsNext]_vars

SpecDiagonal == InitDiagonal /\ [][PjNext]_vars

SpecDeterminant == InitDeterminant /\ [][DtNext]_vars

SpecStress == InitStress /\ [][SeNext]_vars

SpecRk4 == InitRk4 /\ [][RkNext]_vars

SpecThrottle == InitThrottle /\ [][ThNext]_vars

SpecPpm == InitPpm /\ [][PmNext]_vars

SpecSingular == InitSingular /\ [][GsNext]_vars

SpecOverlay == InitOverlay /\ [][OvNext]_vars

SpecRuns == InitRuns /\ [][RnNext]_vars

HasZeroRow(M) == \E r \in Idx : \A c \in Idx : M[r][c] = RZero

\* C1: whenever inverse returns true, the matrix written to Ainv is the
\* two-sided inverse of A in exact arithmetic: A * Ainv = I and Ainv * A = I.
C1_InverseIsInverse ==
    (lin_pc = "inverse" /\ inv_ok) =>
        (mul(A, Ainv) = identity /\ mul(Ainv, A) = identity)

\* inverse succeeded on a matrix whose first pivot needed a row swap
C1_Witness ==
    lin_pc = "inverse" /\ inv_ok /\ A[0][0] = RZero /\ eps = eps_default

\* C2: with a positive tolerance, inverse returns false for every matrix
\* that has an all-zero row, whichever row it is.
C2_ZeroRowRejected ==
    (lin_pc = "inverse" /\ HasZeroRow(A)) => ~inv_ok

\* inverse was called on a matrix whose only zero row is the last one and
\* whose first three pivots are accepted
C2_Witness ==
    /\ lin_pc = "inverse" /\ ~inv_ok /\ eps = eps_default
    /\ \A c \in Idx : A[3][c] = RZero
    /\ out_det # RZero /\ out_det # ROne

\* C8: the matrix built by sym4(M) equals its own transpose entry for
\* entry, and sym4 of an already symmetric matrix has the same entries.
C8_Sym4Symmetric ==
    (lin_pc \in {"sym4", "sym4_again"}) =>
        /\ IsSymmetric(S)
        /\ IsSymmetric(sym_arg) => S = sym_arg

\* sym4 was applied to a non-symmetric matrix and then to its own result
C8_Witness ==
    lin_pc = "sym4_again" /\ ~IsSymmetric(A) /\ IsSymmetric(sym_arg)

(***************************************************************************)
(* Properties of the geometry pipeline                                     *)
(***************************************************************************)
GeoDone(calls) == geo_pc \in calls

AfterDMetric4 ==
    {"dmetric4", "prepare_metric", "christoffel", "riemann_at", "ricci", "scalar",
     "einstein_at"}
AfterPrepareMetric == AfterDMetric4 \ {"dmetric4"}
AfterChristoffel == AfterPrepareMetric \ {"prepare_metric"}
AfterRiemannAt == AfterChristoffel \ {"christoffel"}
AfterRicci == AfterRiemannAt \ {"riemann_at"}
AfterScalar == AfterRicci \ {"ricci"}

AllZero3(T) == \A i \in Idx, j \in Idx, k \in Idx : REq(T[i][j][k], RZero)
AllZero4(T) == \A i \in Idx : AllZero3(T[i])

\* C4: for a field whose metric is the same matrix at every point, at every
\* query point and every step, the four matrices of dmetric4, the 64
\* Christoffel symbols, the 256 Riemann components, the Ricci matrix and the
\* scalar curvature are all exactly zero.
C4_ConstantFieldIsFlat ==
    field \in ConstantFields =>
        /\ GeoDone(AfterDMetric4) => AllZero3(dg4)
        /\ GeoDone(AfterPrepareMetric) => AllZero3(pack.dg)
        /\ GeoDone(AfterChristoffel) => AllZero3(gam)
        /\ GeoDone(AfterRiemannAt) => AllZero4(riem)
        /\ GeoDone(AfterRicci) => \A i \in Idx, j \in Idx : REq(ric[i][j], RZero)
        /\ GeoDone(AfterScalar) => REq(rscal, RZero)

\* the whole pipeline ran on a constant non-diagonal metric, away from the
\* origin, with the default step 1e-4
C4_Witness ==
    /\ field = "const_sheared" /\ geo_pc = "scalar"
    /\ pt[1] # RZero /\ fd_h = fd_h_default /\ pack.inv_ok

\* C6: for every MetricPack built by prepare_metric from a field of symmetric
\* matrices, christoffel returns G[mu][a][b] == G[mu][b][a] for all mu, a, b,
\* whether or not the inversion succeeded.
C6_ChristoffelSymmetric ==
    GeoDone(AfterChristoffel) => \A mu \in Idx : IsSymmetric(gam[mu])

\* christoffel ran on a successfully inverted, point-dependent metric and
\* returned a nonzero coefficient with distinct lower indices
C6_Witness ==
    /\ geo_pc = "christoffel" /\ pack.inv_ok
    /\ \E mu \in Idx, a \in Idx, b \in Idx : a # b /\ gam[mu][a][b] # RZero

\* C7: the tensor returned by riemann_at is antisymmetric in its last two
\* indices, R[mu][nu][a][b] == -R[mu][nu][b][a], so R[mu][nu][a][a] == 0.
C7_RiemannAntisymmetric ==
    GeoDone(AfterRiemannAt) =>
        \A mu \in Idx, nu \in Idx, a \in Idx, b \in Idx :
            REq(riem[mu][nu][a][b], RNeg(riem[mu][nu][b][a]))

\* riemann_at returned a tensor with a nonzero component
C7_Witness ==
    /\ geo_pc = "riemann_at"
    /\ \E mu \in Idx, nu \in Idx, a \in Idx, b \in Idx : riem[mu][nu][a][b] # RZero

\* C9: the matrix returned by einstein_at is symmetric, G[i][j] == G[j][i]
\* for all i, j.
C9_EinsteinSymmetric ==
    geo_pc = "einstein_at" => IsSymmetric(ein)

(***************************************************************************)
(* Properties of the signature repair                                      *)
(***************************************************************************)
Lorentzian == nneg = 1 /\ npos = 3 /\ nzero = 0

\* the eigenvalues of the matrix handed to project_signature
InputLam == jacobi_symmetric_4x4(sig_g, 64, MkReal(1, 1, -14)).lam

\* C3 as stated: for every symmetric input and every positive floor a caller
\* passes (the default 1e-9 and build_tetrad's 1e-12), validate_signature
\* with its default threshold classifies the matrix project_signature
\* returned as 1 negative, 3 positive, 0 zero.
C3_ProjectedIsLorentzian ==
    sig_pc = "validated" => Lorentzian

\* C3 amended: the classification is (1, 3, 0) whenever the floor exceeds
\* validate_signature's threshold 1e-10, as the default 1e-9 does, or every
\* eigenvalue magnitude of the input exceeds that threshold.
C3_LorentzianAboveThreshold ==
    (/\ sig_pc = "validated"
     /\ \/ RGt(sig_eps, validate_eps_default)
        \/ \A i \in Idx : RGt(fabs(InputLam[i]), validate_eps_default))
    => Lorentzian

\* project_signature with the default floor repaired a non-diagonal matrix
\* with two negative and two zero eigenvalues
C3_Witness ==
    /\ sig_pc = "validated" /\ sig_eps = project_eps_default
    /\ sig_g[0][1] # RZero
    /\ neg_count(InputLam) = 2
    /\ Cardinality({i \in Idx : InputLam[i] = RZero}) = 2

(***************************************************************************)
(* Properties of the worldline                                             *)
(***************************************************************************)
\* x0 + n * dtau * u0
StraightLine(x0, u0, dtau, n) ==
    Tab4(LAMBDA i : RAdd(x0[i], RMul(RMul(RInt(n), dtau), u0[i])))

\* C5: with MinkowskiField, no potential and an initial velocity u0 on the
\* unit shell eta(u0, u0) = -1, after n calls of geodesic_step with step dtau
\* the position is x0 + n * dtau * u0 and the velocity is still u0.
C5_FlatFreeMotionIsStraight ==
    (/\ wl_pc = "run" /\ wl_field = "minkowski" /\ wl_pot = "none"
     /\ REq(qform(minkowski_eta, wu0), RInt(-1)))
    => (wu = wu0 /\ wx = StraightLine(wx0, wu0, wl_dtau, steps))

\* the last of the steps was taken from a point off the origin with a
\* boosted velocity on the unit shell
C5_Witness ==
    /\ wl_pc = "run" /\ wl_field = "minkowski" /\ wl_pot = "none"
    /\ steps = MaxSteps
    /\ wu0 = Vec(RFrac(5, 4), RFrac(3, 4), RZero, RZero)
    /\ wx0[1] # RZero /\ wx # wx0

\* C10: with q the norm of u_new = u_half + 0.5 * dtau * a1 in the metric at
\* the new position, geodesic_step leaves u rescaled onto the shell
\* g(u, u) = -1 when q < 0 and leaves u = u_new, off the shell, when
\* q >= 0; in both cases x has advanced by dtau * u_half.
C10_RenormalizedIffTimelike ==
    (wl_pc = "run" /\ steps > 0) =>
        /\ wx = position_update(last.x_old, wl_dtau, last.uh)
        /\ last.u_new = half_kick(last.uh, wl_dtau, last.a1)
        /\ last.q = qform(FieldG(wl_field, wx), last.u_new)
        /\ RLt(last.q, RZero) =>
              /\ REq(qform(FieldG(wl_field, wx), wu), RInt(-1))
              /\ wu = renormalize_scale(last.u_new, RDiv(ROne, RSqrt(RNeg(last.q))))
        /\ ~RLt(last.q, RZero) =>
              /\ wu = last.u_new
              /\ ~REq(qform(FieldG(wl_field, wx), wu), RInt(-1))

\* a step ended on a null velocity, q = 0, and moved the position
C10_Witness ==
    /\ wl_pc = "run" /\ steps > 0
    /\ last.q = RZero /\ last.u_new[0] # RZero
    /\ wu = last.u_new /\ wx # last.x_old

(***************************************************************************)
(* Properties of the eigen-decomposition                                   *)
(***************************************************************************)
JacobiBounded ==
    /\ jac_rot = jac_sweep
    /\ jac_sweep <= jac_max
    /\ jac_ret \in {"none", "true"}
    /\ jac_pc = "done" <=> jac_ret = "true"

\* C11: jacobi_symmetric_4x4 makes at most max_sweeps rotations, one per
\* loop iteration, always reaches its return, and the value it returns is
\* true whether the off-diagonal fell below tol or the budget ran out.
C11_JacobiTerminatesTrue ==
    /\ []JacobiBounded
    /\ <>(jac_pc = "done" /\ jac_ret = "true")

\* the call returned true after using its whole nonzero budget on a matrix
\* whose largest off-diagonal entry is still at or above tol
C11_Witness ==
    /\ jac_pc = "done" /\ jac_ret = "true"
    /\ jac_max > 0 /\ jac_rot = jac_max
    /\ RGe(max_offdiag_abs(jac_A).val, jac_tol)
    /\ max_offdiag_abs(jac_A).val # RZero

(***************************************************************************)
(* Properties of the tetrad                                                *)
(***************************************************************************)
TetLam == jacobi_symmetric_4x4(tet_g, 64, MkReal(1, 1, -14)).lam

TetCounts == validate_signature(tet_g, validate_eps_default)

\* validate_signature counts 1 negative, 3 positive and 0 zero eigenvalues
TetLorentzian == TetCounts.nneg = 1 /\ TetCounts.npos = 3 /\ TetCounts.nzero = 0

\* every eigenvalue magnitude of g is below 1/eps of is_pd, that is 1e12
TetModerate == \A i \in Idx : RLt(RMul(fabs(TetLam[i]), is_pd_eps_default), ROne)

\* C12 as stated: for every g of Lorentzian inertia, whatever its
\* eigenvalue magnitudes, the proxy g_tilde of build_tetrad passes is_pd.
C12_ProxyPassesIsPd ==
    (tet_pc = "checked" /\ TetLorentzian) => tet_pd = "true"

\* C12 amended: for g of Lorentzian inertia the proxy g_tilde of
\* build_tetrad passes is_pd with its default threshold exactly when every
\* eigenvalue magnitude of g is below 1e12.
C12_ProxyPdBelowBound ==
    (tet_pc = "checked" /\ TetLorentzian) => (tet_pd = "true" <=> TetModerate)

\* a rotated Lorentzian metric with an eigenvalue 1e8, its negative
\* eigenvalue not in column 0, whose proxy passed
C12_Witness ==
    /\ tet_pc = "checked" /\ TetLorentzian /\ TetModerate
    /\ tet_pd = "true"
    /\ tet_g[0][1] # RZero
    /\ \E i \in Idx : RGe(TetLam[i], MkReal(1, 1, 8))
    /\ tet_fro = RZero

(***************************************************************************)
(* Properties of the positive-definiteness audit                           *)
(***************************************************************************)
\* g is non-singular: elimination with partial pivoting finds four nonzero
\* pivots (the tolerance 1e-30 is below every nonzero pivot of the inputs)
PdNonSingular == inverse(pd_g, mat4_default, MkReal(1, 1, -30)).ok

\* C13: for every symmetric g the proxy pd_proxy_square(g) = g*g is exactly
\* symmetric, and for every non-singular symmetric g check_pd of the proxy
\* reports ok = true, with every diagonal entry of L strictly positive.
C13_SquareProxyIsPd ==
    /\ pd_pc \in {"squared", "checked"} =>
          \A i \in Idx, j \in Idx : pd_gt[i][j] = pd_gt[j][i]
    /\ (pd_pc = "checked" /\ PdNonSingular) =>
          (pd_rep.ok /\ RGt(pd_rep.min_diagL, RZero))

\* a non-singular, indefinite, non-diagonal g whose proxy was accepted with
\* a Cholesky factor that is not diagonal
C13_Witness ==
    /\ pd_pc = "checked" /\ PdNonSingular /\ pd_rep.ok
    /\ pd_g[0][0] = RZero /\ pd_g[0][1] # RZero
    /\ pd_gt[0][1] # RZero
    /\ pd_rep.min_diagL # pd_rep.max_diagL

(***************************************************************************)
(* Properties of the time-dilation audit                                   *)
(***************************************************************************)
\* g = eta and u = (gamma, gamma*v, 0, 0) with eta(u, u) = -1
TdBoosted ==
    /\ td_g = minkowski_eta
    /\ td_u[2] = RZero /\ td_u[3] = RZero
    /\ qform(minkowski_eta, td_u) = RInt(-1)

\* C14: for g = eta and u = (gamma, gamma*v, 0, 0) on the unit shell,
\* time_dilation returns gamma = u[0], v_norm = |v| and q_u = -1, and the
\* timelike direction it derived is t = (1, 0, 0, 0).
C14_TimeDilationRecoversBoost ==
    (td_pc = "done" /\ TdBoosted) =>
        /\ td_rep.gamma = td_u[0]
        /\ td_rep.v_norm = fabs(RDiv(td_u[1], td_u[0]))
        /\ td_rep.q_u = RInt(-1)
        /\ td_t = Vec(RInt(1), RZero, RZero, RZero)

\* the audit of a boost by 4/5 to the left or right returned
C14_Witness ==
    /\ td_pc = "done" /\ TdBoosted
    /\ td_u[0] = RFrac(5, 3)
    /\ td_rep.gamma = RFrac(5, 3)
    /\ td_rep.v_norm = RFrac(4, 5)

C16_SameArgumentsSameResult ==
    rp_pc = "second" => rp_first = rp_second

\* C16 amended: two such calls with equal arguments return equal results
\* when units::C().fd_h holds the same value at both calls, whatever else
\* was written to units::C(); christoffel, which takes the prepared pack,
\* returns equal results in every case.
C16_SameStepSameResult ==
    rp_pc = "second" =>
        /\ rp_h1 = rp_h2 => rp_first = rp_second
        /\ rp_call.op = "christoffel" => rp_first = rp_second

\* a step along the cubic field made twice with equal results, after fd_h
\* was changed and restored between the calls
C16_Witness ==
    /\ rp_pc = "second" /\ rp_call.op = "geodesic_step" /\ rp_call.F = "cubic"
    /\ rp_call.u[2] # RZero
    /\ rp_writes = MaxWrites /\ rp_h1 = rp_h2 /\ rp_dtau # rp_h1
    /\ rp_first = rp_second
    /\ rp_first.u # rp_call.u

(***************************************************************************)
(* Properties of the Logger under concurrent calls                         *)
(***************************************************************************)
LgFields ==
    {"enabled_", "min_level_", "console_mirror_", "started_", "run_id_", "flush_every_", "file_"}

\* the accesses thread t makes with its next statement
LgNextAccess(t) == LgAccess(lg_pc[t], lg_started)

\* two threads are about to access field f, one of them writing, and nothing
\* orders the two accesses
LgRace(f) ==
    \E t \in Threads, s \in Threads :
        /\ t # s
        /\ <<f, "w">> \in LgNextAccess(t)
        /\ \E k \in {"r", "w"} : <<f, k>> \in LgNextAccess(s)

\* C17 as stated: every read and write of enabled_, min_level_,
\* console_mirror_, started_, run_id_, flush_every_ and file_ is made by a
\* thread holding mtx_, and no interleaving reaches an unsynchronized
\* read/write pair on the same field.
C17_LoggerThreadSafe ==
    /\ \A t \in Threads : LgNextAccess(t) # {} => lg_mtx = t
    /\ \A f \in LgFields : ~LgRace(f)

\* the line numbers of file_
LgLines == 1..Len(lg_file)

\* C18: the log_id values of the lines of file_ are pairwise distinct and
\* strictly increasing in the order the lines were written, over every
\* interleaving of log, start_run, stop_run and next_log_id and across runs.
C18_LogIdsIncrease ==
    \A i \in LgLines, j \in LgLines :
        i < j => lg_file[i].log_id < lg_file[j].log_id

\* lines of two threads and of two runs in the file, two of them adjacent
\* with an id between them taken by a direct next_log_id call
C18_Witness ==
    /\ Len(lg_file) >= 2
    /\ \E i \in LgLines, j \in LgLines :
        /\ j = i + 1
        /\ lg_file[i].thread # lg_file[j].thread
        /\ lg_file[j].log_id > lg_file[i].log_id + 1
    /\ \E i \in LgLines, j \in LgLines : lg_file[i].run_id # lg_file[j].run_id

(***************************************************************************)
(* Properties of one geodesic step                                         *)
(***************************************************************************)
\* the pack and the symbols at a point, and the acceleration of v there
GsAccelAt(x, v) ==
    accel(prepare_metric(gs_in.F, x, fd_h), christoffel(prepare_metric(gs_in.F, x, fd_h)),
          v, gs_in.P, x, fd_h)

\* C19: geodesic_step computes a0 from the pack and the symbols at the old x
\* with the old u; u_half = u + dtau/2 * a0; x_new = x + dtau * u_half; a1
\* from the pack and the symbols rebuilt at x_new, with u_half and the
\* potential gradient at x_new; u_new = u_half + dtau/2 * a1; and it
\* renormalizes u_new with the metric at x_new.
C19_GeodesicStepOrder ==
    gs_pc = "done" =>
        /\ gs_out.a0 = GsAccelAt(gs_in.x, gs_in.u)
        /\ gs_out.uh = half_kick(gs_in.u, gs_in.dtau, gs_out.a0)
        /\ gs_out.x = position_update(gs_in.x, gs_in.dtau, gs_out.uh)
        /\ gs_out.a1 = GsAccelAt(gs_out.x, gs_out.uh)
        /\ gs_out.u_new = half_kick(gs_out.uh, gs_in.dtau, gs_out.a1)
        /\ gs_out.u = renormalize_timelike(FieldG(gs_in.F, gs_out.x), gs_out.u_new)

\* a step along the cubic field: the half-step velocity differs from u, and
\* a1 is neither the acceleration of u at x_new nor that of u_half at the
\* old x
C19_Witness ==
    /\ gs_pc = "done" /\ gs_in.F = "cubic"
    /\ gs_out.uh # gs_in.u /\ gs_out.x # gs_in.x
    /\ gs_out.a1 # GsAccelAt(gs_out.x, gs_in.u)
    /\ gs_out.a1 # GsAccelAt(gs_in.x, gs_out.uh)
    /\ gs_out.a1 # gs_out.a0

(***************************************************************************)
(* Properties of the rebuilt eigenvalue diagonal                           *)
(***************************************************************************)
\* the indices of the strictly negative eigenvalues
PjNegative == { i \in Idx : RLt(pj_lam[i], RZero) }

\* the lowest index among those of the set whose magnitude is the largest
PjLargest(among) ==
    CHOOSE i \in among :
        \A j \in among :
            \/ RGt(fabs(pj_lam[i]), fabs(pj_lam[j]))
            \/ (fabs(pj_lam[i]) = fabs(pj_lam[j]) /\ i <= j)

\* the lowest index among those of the set whose magnitude is the smallest
PjSmallest(among) ==
    CHOOSE i \in among :
        \A j \in among :
            \/ RLt(fabs(pj_lam[i]), fabs(pj_lam[j]))
            \/ (fabs(pj_lam[i]) = fabs(pj_lam[j]) /\ i <= j)

PjExpected == IF PjNegative # {} THEN PjLargest(PjNegative) ELSE PjSmallest(Idx)

\* C20: project_signature rebuilds the eigenvalue diagonal with exactly one
\* negative and three positive entries; the negative one is the
\* largest-magnitude strictly negative eigenvalue when there is one,
\* otherwise the smallest-magnitude eigenvalue, the lowest index winning a
\* tie; every entry has magnitude max(|lam_i|, eps).
C20_RebuiltDiagonal ==
    pj_pc = "projected" =>
        /\ Cardinality({ i \in Idx : RLt(pj_out[i][i], RZero) }) = 1
        /\ Cardinality({ i \in Idx : RGt(pj_out[i][i], RZero) }) = 3
        /\ RLt(pj_out[PjExpected][PjExpected], RZero)
        /\ \A i \in Idx : fabs(pj_out[i][i]) = RMax(fabs(pj_lam[i]), pj_eps)
        /\ \A i \in Idx, j \in Idx : i # j => pj_out[i][j] = RZero

\* two negative eigenvalues tie for the largest magnitude, a third is
\* smaller and the fourth is zero: the first of the two stays negative
C20_Witness ==
    /\ pj_pc = "projected"
    /\ pj_lam = Vec(RInt(-1), RInt(-2), RInt(-2), RZero)
    /\ RLt(pj_out[1][1], RZero) /\ pj_out[2][2] = RInt(2)
    /\ pj_out[0][0] = RInt(1) /\ pj_out[3][3] = pj_eps

(***************************************************************************)
(* Properties of one iteration of the Jacobi loop                          *)
(***************************************************************************)
\* the magnitude of the n-th upper off-diagonal entry, in row-major order
JacOff6(M, n) == fabs(M[OffDiag[n][1]][OffDiag[n][2]])

\* the first pair in row-major order whose magnitude no other pair exceeds
JacLargest(M) ==
    CHOOSE n \in 1..6 :
        \A m \in 1..6 :
            \/ RGt(JacOff6(M, n), JacOff6(M, m))
            \/ (JacOff6(M, n) = JacOff6(M, m) /\ n <= m)

\* every entry is a number: the roots the rotation took were rational
JacExact(M) == \A r \in Idx, c \in Idx : ~IsNaN(M[r][c])

JacSymmetric(M) == \A r \in Idx, c \in Idx : M[r][c] = M[c][r]

\* the pair (p, q) was chosen in M and the rotation left M2
JacIterationOk(M, M2, pq, p, q) ==
    /\ p < q
    /\ pq.p = p /\ pq.q = q /\ pq.val = fabs(M[p][q])
    /\ \A m \in 1..6 : ~RGt(JacOff6(M, m), pq.val)
    /\ M2[p][q] = RZero /\ M2[q][p] = RZero
    /\ JacSymmetric(M2)
    /\ RAdd(M2[p][p], M2[q][q]) = RAdd(M[p][p], M[q][q])

JacIteration ==
    (jac_rot' = jac_rot + 1 /\ JacExact(jac_A'))
    => JacIterationOk(jac_A, jac_A', max_offdiag_abs(jac_A),
                      OffDiag[JacLargest(jac_A)][1], OffDiag[JacLargest(jac_A)][2])

\* C21: at every iteration of jacobi_symmetric_4x4 on a symmetric input
\* the chosen pair has p < q and the largest magnitude among the six upper
\* off-diagonal entries, the first in row-major order on ties; after
\* jacobi_rotate A[p][q] = A[q][p] = 0, A is symmetric and
\* A[p][p] + A[q][q] is unchanged.
C21_JacobiIteration == [][JacIteration]_vars

\* after one rotation of an input whose entries (0, 1) and (2, 3) tie for
\* the largest magnitude: (0, 1) was zeroed, (2, 3) was not
C21_Witness ==
    /\ jac_rot = 1 /\ jac_pc = "loop"
    /\ fabs(jac_in[0][1]) = fabs(jac_in[2][3]) /\ jac_in[0][1] # RZero
    /\ jac_A[0][1] = RZero /\ jac_A[2][3] = jac_in[2][3]
    /\ jac_A[0][0] # jac_in[0][0]

(***************************************************************************)
(* Properties of det                                                       *)
(***************************************************************************)
\* the number of pairs of positions of (a, b, c, d) that are out of order
Inversions(a, b, c, d) ==
    Cardinality({ pr \in {<<a, b>>, <<a, c>>, <<a, d>>, <<b, c>>, <<b, d>>, <<c, d>>} :
                    pr[1] > pr[2] })

\* the sign of the permutation (a, b, c, d) of (0, 1, 2, 3); 0 when it is none
PermSign(a, b, c, d) ==
    IF Cardinality({a, b, c, d}) < 4 THEN 0
    ELSE IF Inversions(a, b, c, d) % 2 = 0 THEN 1 ELSE -1

LeibnizTerm(M, a, b, c, d) ==
    IF PermSign(a, b, c, d) = 0 THEN RZero
    ELSE RMul(RInt(PermSign(a, b, c, d)),
              RMul(RMul(M[0][a], M[1][b]), RMul(M[2][c], M[3][d])))

\* the sum over the permutations of sign * M[0][a] * M[1][b] * M[2][c] * M[3][d]
Leibniz(M) ==
    Sum4(LAMBDA a : Sum4(LAMBDA b : Sum4(LAMBDA c : Sum4(LAMBDA d :
        LeibnizTerm(M, a, b, c, d)))))

\* C22: det(M) equals the Leibniz determinant of M, with the sign flipped
\* once per row swap; it returns 0 by its early return exactly when the
\* determinant is 0; and when inverse succeeds on the same matrix its
\* out_det equals det(M).
C22_DetIsLeibniz ==
    /\ dt_pc \in {"det", "inverse"} =>
          /\ dt_det.val = Leibniz(dt_M)
          /\ dt_det.early => dt_det.val = RZero
          /\ dt_det.val = RZero => dt_det.early
    /\ (dt_pc = "inverse" /\ dt_inv.ok) => dt_inv.det = dt_det.val

\* a matrix with a zero at (0, 0) and a non-zero determinant: the pivoting
\* swapped rows an odd number of times and inverse agreed with det
C22_Witness ==
    /\ dt_pc = "inverse" /\ dt_inv.ok
    /\ dt_M[0][0] = RZero /\ dt_inv.sign = -1
    /\ dt_det.val # RZero /\ ~dt_det.early
    /\ dt_inv.det = dt_det.val

(***************************************************************************)
(* Properties of the tetrad                                                *)
(***************************************************************************)
\* the metric build_tetrad works on: the projection of its argument
TetProjected == project_signature(tet_g, tetrad_floor(tet_eps)).out

\* E^T g E
TetGram(E, g) == mul(mul(transpose(E), g), E)

\* M is diag(-1, 1, 1, 1)
TetIsEta(M) == \A r \in Idx, c \in Idx : M[r][c] = minkowski_eta[r][c]

\* column c of E is an eigenvector of g: g * E[:, c] is parallel to E[:, c]
TetEigenColumn(g, E, c) ==
    /\ \E r \in Idx : E[r][c] # RZero
    /\ \A r \in Idx, k \in Idx :
          RMul(Sum4(LAMBDA j : RMul(g[r][j], E[j][c])), E[k][c])
            = RMul(Sum4(LAMBDA j : RMul(g[k][j], E[j][c])), E[r][c])

\* E is E0 with the columns 0 and k exchanged
TetExchanged(E, E0, k) ==
    \A r \in Idx, c \in Idx :
        E[r][c] = (IF c = 0 THEN E0[r][k] ELSE IF c = k THEN E0[r][0] ELSE E0[r][c])

\* the decomposition e of the projected metric gives E0 = Q * Dinv and k
TetFromDecomposition(E, e, tol) ==
    /\ Cardinality({ i \in Idx : RLt(e.lam[i], RZero) }) = 1
    /\ RLt(e.lam[tetrad_neg_idx(e.lam)], RZero)
    /\ \A j \in Idx : j < tetrad_neg_idx(e.lam) => ~RLt(e.lam[j], RZero)
    /\ TetExchanged(E, mul(e.Q, tetrad_dinv(e.lam, tol)), tetrad_neg_idx(e.lam))

\* C23: build_tetrad returns E0 = Q * diag(1/sqrt(max(|lam_i|, eps))) with
\* the columns 0 and k exchanged, k the first index of a negative eigenvalue
\* of the projected metric g; column 0 of E is the eigenvector of the single
\* negative eigenvalue and E^T g E is diag(-1, 1, 1, 1).
C23_TimelikeLegFirst ==
    tet_pc \in {"built", "checked"} =>
        LET g == TetProjected
        IN /\ IsSymmetric(g)
           /\ LET e == jacobi_symmetric_4x4(g, 64, MkReal(1, 1, -14))
              IN TetFromDecomposition(tet_E, e, tet_eps)
           /\ TetEigenColumn(g, tet_E, 0)
           /\ TetIsEta(TetGram(tet_E, g))

\* the negative eigenvalue of the projected metric is not the first one, the
\* metric is not diagonal, and two columns of E were exchanged
C23_Witness ==
    /\ tet_pc = "built"
    /\ tet_g[0][1] # RZero
    /\ tet_E[2][0] # RZero /\ tet_E[0][0] = RZero
    /\ LET g == TetProjected
       IN /\ IsSymmetric(g)
          /\ TetGram(tet_E, g)[0][0] = RInt(-1)
          /\ tetrad_neg_idx(jacobi_symmetric_4x4(g, 64, MkReal(1, 1, -14)).lam) = 2

(***************************************************************************)
(* Properties of stress_energy_at                                          *)
(***************************************************************************)
\* the exponent of the kernel weight of the event e when the local metric is g
SeExponent(g, x, e, P) ==
    LET gg == mul(g, g)
    IN RMul(RNeg(Sum4(LAMBDA i : Sum4(LAMBDA j :
                RMul(RMul(RSub(x[i], e.x[i]), gg[i][j]), RSub(x[j], e.x[j]))))),
            RDiv(RHalf, RMul(P.sigma, P.sigma)))

\* E u_mu u_nu + eta m c2 g_mu_nu with u lowered by g
SeBracket(g, e, P, mu, nu) ==
    RAdd(RMul(RMul(Sum4(LAMBDA a : RMul(g[mu][a], e.u[a])),
                   Sum4(LAMBDA b : RMul(g[nu][b], e.u[b]))), e.E),
         RMul(g[mu][nu], RMul(RMul(P.eta, e.m), P.c2)))

\* the sum of the brackets of the first n events whose weight is exp(q)
RECURSIVE SeCoefficient(_, _, _, _, _, _, _, _)
SeCoefficient(g, x, evs, P, q, mu, nu, n) ==
    IF n = 0 THEN RZero
    ELSE RAdd(SeCoefficient(g, x, evs, P, q, mu, nu, n - 1),
              IF SeExponent(g, x, evs[n], P) = q THEN SeBracket(g, evs[n], P, mu, nu) ELSE RZero)

\* T is the kernel-weighted sum of the brackets, everything taken from g
SeIsSum(T, g, x, evs, P) ==
    \A mu \in Idx, nu \in Idx :
        /\ \A t \in T[mu][nu] : t[2] # RZero
        /\ \A q \in { t[1] : t \in T[mu][nu] } \cup { SeExponent(g, x, evs[i], P) : i \in 1..Len(evs) } :
              ExpCoef(T[mu][nu], q) = SeCoefficient(g, x, evs, P, q, mu, nu, Len(evs))

\* C24: stress_energy_at evaluates the field once, at the query point x; the
\* result is the weighted sum built from that one matrix g(x) (lowering,
\* g term and the distance under g(x)^2), a field with the same value at x
\* gives the same result whatever it is at the event positions, and an empty
\* event list gives the zero matrix.
C24_LocalMetricOnly ==
    se_pc = "done" =>
        /\ se_calls = <<se_x>>
        /\ SeIsSum(se_T, FieldG(se_F, se_x), se_x, se_evs, se_P)
        /\ \A F2 \in SeFields :
              FieldG(F2, se_x) = FieldG(se_F, se_x)
                => stress_energy_at(F2, se_evs, se_x, se_P).T = se_T
        /\ (se_evs = <<>> => \A mu \in Idx, nu \in Idx : se_T[mu][nu] = ExpZero)

\* two events away from x, at one of which another field with the same value
\* at x has another metric; the result is not zero
C24_Witness ==
    /\ se_pc = "done"
    /\ Len(se_evs) = 2
    /\ \A i \in 1..2 : se_evs[i].x # se_x
    /\ \E F2 \in SeFields, i \in 1..2 :
          /\ FieldG(F2, se_x) = FieldG(se_F, se_x)
          /\ FieldG(F2, se_evs[i].x) # FieldG(se_F, se_evs[i].x)
    /\ Cardinality(se_T[0][0]) = 2
    /\ se_T[1][1] # ExpZero

(***************************************************************************)
(* Properties of rk4_geodesic                                              *)
(***************************************************************************)
\* C25: rk4_geodesic(F, x, u, dtau, P) and geodesic_step(F, P, x, u, dtau)
\* are the same operation: two worldlines started from the same (x, u) and
\* stepped with the same field, potential and dtau, one by each function,
\* hold equal (x, u) whenever they have made the same number of steps.
C25_Rk4IsGeodesicStep ==
    (rk_pc = "run" /\ rk_n = rk_gn) => (rk_x = rk_gx /\ rk_u = rk_gu)

\* both worldlines have made every step, under a potential with a force, and
\* have moved and changed velocity
C25_Witness ==
    /\ rk_pc = "run"
    /\ rk_n = MaxSteps /\ rk_gn = MaxSteps
    /\ rk_P \in {"ramp", "radial"}
    /\ rk_x \notin WlPositions /\ rk_u \notin WlVelocities
    /\ rk_x = rk_gx /\ rk_u = rk_gu

(***************************************************************************)
(* Properties of the throttled trace statements                            *)
(***************************************************************************)
\* the ticks a throttle that counted across calls would have let through
\* when every call makes two ticks, the most a call of det or inverse makes
ThAdmitted(calls) == { k \in 1..(2 * calls) : Throttle_tick(k) }

\* C26: with heavy tracing enabled the records of det and inverse are
\* throttled across calls: only the first 4 ticks emit, then one tick in
\* every 1000, so the number of records does not grow with every call (a
\* tick guards at most the three records at the end of inverse).
C26_ThrottledAcrossCalls ==
    (th_pc = "run" /\ th_heavy) => Len(th_L.lines) <= 3 * Cardinality(ThAdmitted(th_calls))

(***************************************************************************)
(* Properties of save_ppm                                                  *)
(***************************************************************************)
\* C27: save_ppm applies the overlay only if overlay.size() == nx*ny: the
\* pixel (i, j), the (i*ny + j + 1)-th written, is black exactly when the
\* overlay has that size and overlay[i*ny + j] != 0; for an overlay of any
\* other size no element is read; every read is below overlay.size().
C27_OverlayOnlyIfSized ==
    pm_pc # "off" =>
        /\ \A k \in 1..Len(pm_pix) :
              (pm_pix[k] = "black")
                <=> (Len(pm_overlay) = pm_nx * pm_ny /\ pm_overlay[k] # 0)
        /\ (Len(pm_overlay) # pm_nx * pm_ny => pm_reads = {})
        /\ \A r \in pm_reads : r < Len(pm_overlay)

(***************************************************************************)
(* Properties of a step from a point where the metric has no inverse       *)
(***************************************************************************)
GsZero4 == Vec(RZero, RZero, RZero, RZero)

\* the pack prepare_metric returns at the starting point of the step
GsPackAtStart == prepare_metric(gs_in.F, gs_in.x, fd_h)

\* C28: where the metric cannot be inverted (its determinant is zero),
\* prepare_metric returns inv_ok = false with an all-zero g_inv, christoffel
\* of that pack is all zeros, and geodesic_step, which does not depend on
\* inv_ok, computes zero acceleration there, with or without a potential,
\* and advances x by dtau * u.
C28_SingularMetricStep ==
    (gs_pc = "done" /\ Leibniz(FieldG(gs_in.F, gs_in.x)) = RZero) =>
        /\ ~GsPackAtStart.inv_ok
        /\ \A r \in Idx, c \in Idx : GsPackAtStart.g_inv[r][c] = RZero
        /\ \A mu \in Idx, a \in Idx, b \in Idx : christoffel(GsPackAtStart)[mu][a][b] = RZero
        /\ gs_out.a0 = GsZero4
        /\ accel_pack([GsPackAtStart EXCEPT !.inv_ok = TRUE],
                      gs_in.u, gs_in.P, gs_in.x, fd_h) = gs_out.a0
        /\ gs_out.uh = gs_in.u
        /\ \A i \in Idx : gs_out.x[i] = RAdd(gs_in.x[i], RMul(gs_in.dtau, gs_in.u[i]))

\* a step from the singular point of the point-dependent field, where the
\* derivatives of the metric and the gradient of the potential are not zero
C28_Witness ==
    /\ gs_pc = "done"
    /\ gs_in.F = "bilinear" /\ gs_in.P = "ramp"
    /\ Leibniz(FieldG(gs_in.F, gs_in.x)) = RZero
    /\ \E a \in Idx : GsPackAtStart.dg[a] # mat4_default
    /\ gradV(gs_in.P, gs_in.x, fd_h) # GsZero4
    /\ gs_out.x # gs_in.x
    /\ gs_out.a1 # GsZero4

(***************************************************************************)
(* Properties of mask_from_path_xy                                         *)
(***************************************************************************)
\* C29: for every pair of integer cell endpoints, inside or outside the
\* grid, the loop of draw_segment makes at most |i1-i0| + |j1-j0| + 1
\* iterations and has stood on both endpoints when it ends; every write to
\* the mask is at an index i*ny + j with 0 <= i < nx and 0 <= j < ny; a path
\* of fewer than two points yields an all-zero mask.
C29_SegmentsStayInBounds ==
    ov_pc # "off" =>
        /\ ov_iter <= ov_seg.di + ov_seg.dj + 1
        /\ (ov_pc = "path" /\ ov_k > 1) =>
              /\ <<ov_seg.i0, ov_seg.j0>> \in ov_seen
              /\ <<ov_seg.i1, ov_seg.j1>> \in ov_seen
        /\ \A w \in ov_writes :
              /\ 0 <= w.i /\ w.i < ov_nx /\ 0 <= w.j /\ w.j < ov_ny
              /\ w.index = w.i * ov_ny + w.j
              /\ w.index \in DOMAIN ov_M
        /\ (ov_pc = "done" /\ Len(ov_path) < 2) => \A index \in DOMAIN ov_M : ov_M[index] = 0

\* a slanted segment between two cells outside the grid has been drawn
\* across it: the loop made more than one iteration and marked cells
C29_Witness ==
    /\ ov_pc = "done" /\ Len(ov_path) = 2
    /\ mark_rejected(ov_seg.i0, ov_seg.j0, ov_nx, ov_ny)
    /\ mark_rejected(ov_seg.i1, ov_seg.j1, ov_nx, ov_ny)
    /\ ov_seg.di > 1 /\ ov_seg.dj > 0 /\ ov_seg.di # ov_seg.dj
    /\ ov_iter > 2
    /\ ov_writes # {}
    /\ \E index \in DOMAIN ov_M : ov_M[index] = 0

(***************************************************************************)
(* Properties of the run lifecycle of the logger                           *)
(***************************************************************************)
\* the call just made left every field and the file as they were
RnNothingChanged ==
    /\ rn_started = rn_prev.started /\ rn_run_id = rn_prev.run_id /\ rn_open = rn_prev.open
    /\ rn_counter = rn_prev.counter /\ rn_lines = rn_prev.lines

\* the run ids seen before the call just made
RnEarlierIds == {rn_prev.run_id} \cup { rn_prev.lines[k].run_id : k \in 1..Len(rn_prev.lines) }

\* C30: on an enabled logger, start_run on a started logger and stop_run on
\* a stopped one change nothing and write nothing; log on a stopped logger
\* starts a run (fresh run_id, file open, started_ true) and writes its own
\* record but no run_start record; every record is written while started_
\* is true and carries the run_id of the run it falls in; run_stop is the
\* last record of its run.
C30_RunLifecycle ==
    rn_pc = "run" =>
        /\ (rn_prev.op = "start_run" /\ rn_prev.started) => RnNothingChanged
        /\ (rn_prev.op = "stop_run" /\ ~rn_prev.started) => RnNothingChanged
        /\ (rn_prev.op = "log" /\ ~rn_prev.started) =>
              /\ rn_started /\ rn_open
              /\ rn_run_id \notin RnEarlierIds
              /\ rn_serial = rn_prev.serial + 1
              /\ Len(rn_lines) = Len(rn_prev.lines) + 1
              /\ rn_lines[Len(rn_lines)].name # "run_start"
        /\ \A k \in 1..Len(rn_lines) :
              /\ rn_lines[k].started
              /\ \A m \in 1..Len(rn_lines) :
                    rn_lines[m].serial = rn_lines[k].serial
                      => rn_lines[m].run_id = rn_lines[k].run_id
              /\ (k = Len(rn_lines) /\ rn_started) => rn_lines[k].run_id = rn_run_id
              /\ rn_lines[k].name = "run_stop" =>
                    \A m \in (k + 1)..Len(rn_lines) : rn_lines[m].serial # rn_lines[k].serial

\* a run opened by log, without a run_start record, was stopped; a second
\* run was opened by start_run, and start_run was then called again
C30_Witness ==
    /\ rn_pc = "run"
    /\ Len(rn_lines) = 4
    /\ rn_lines[1].name = "value" /\ rn_lines[2].name = "run_stop"
    /\ rn_lines[3].name = "run_start" /\ rn_lines[3].run_id # rn_lines[1].run_id
    /\ rn_lines[4].name = "value"
    /\ rn_prev.op = "start_run" /\ rn_prev.started

=============================================================================
